---- MODULE Spec2Model ----
(***************************************************************************)
(* A model of fakefat: a backing file tree presented as a FAT32 device     *)
(* that is read and written one byte at a time (src/src/faker.rs).         *)
(*                                                                         *)
(* Strings and paths are sequences of byte values.  A u32 that can exceed  *)
(* 2^31 - 1 (a raw FAT entry) is held as its four little-endian bytes.     *)
(* Option<T> is <<>> for None and <<x>> for Some(x).                       *)
(***************************************************************************)
EXTENDS Integers, Sequences, FiniteSets, TLC

\* fs, bpb, fsinfo, mapper, changes: the fields of FakeFat (fs is the
\*   backing tree: the entries of each of its directories, by path)
\* streams: what DirectoryNewtype::fat_entries makes of each directory of
\*   fs.  No call changes fs, so a call that asks for the entries of a
\*   directory gets what was computed from fs when the device was built.
\* build:   whether integer overflow aborts ("debug") or wraps ("release")
\* writes:  the number of write_byte calls made so far
\* pc:      "idle" between calls, "returned" when a call has ended and its
\*          outcome has not yet been taken by the caller
\* last:    the call that ended last and its outcome
VARIABLES fs, bpb, fsinfo, mapper, nop_mapper, changes, streams, build, writes, pc, last

vars == <<fs, bpb, fsinfo, mapper, nop_mapper, changes, streams, build, writes, pc, last>>

None == <<>>
Some(x) == <<x>>
IsSome(o) == o # <<>>
Unwrap(o) == o[1]

\* body(v), with v evaluated once: a local binding of a value that the code
\* computes once and uses several times
Let(v, body(_)) == CHOOSE result \in {body(x) : x \in {v}} : TRUE

Max(a, b) == IF a >= b THEN a ELSE b
Min(a, b) == IF a <= b THEN a ELSE b

RECURSIVE BitOr(_, _)
BitOr(a, b) ==
    IF a = 0 THEN b
    ELSE IF b = 0 THEN a
    ELSE (IF a % 2 = 1 \/ b % 2 = 1 THEN 1 ELSE 0) + 2 * BitOr(a \div 2, b \div 2)

RECURSIVE BitAnd(_, _)
BitAnd(a, b) ==
    IF a = 0 \/ b = 0 THEN 0
    ELSE (IF a % 2 = 1 /\ b % 2 = 1 THEN 1 ELSE 0) + 2 * BitAnd(a \div 2, b \div 2)

RECURSIVE BitXor(_, _)
BitXor(a, b) ==
    IF a = 0 THEN b
    ELSE IF b = 0 THEN a
    ELSE (IF (a % 2) # (b % 2) THEN 1 ELSE 0) + 2 * BitXor(a \div 2, b \div 2)

\* The four little-endian bytes of a u32 below 2^31.
U32Bytes(n) == <<n % 256, (n \div 256) % 256, (n \div 65536) % 256, (n \div 16777216) % 256>>

(***************************************************************************)
(* Bounds of the model.                                                    *)
(***************************************************************************)
\* write_byte calls explored per run of the main specification
MaxWrites == 2
\* write_byte calls explored per run of the FAT-entry specification
MaxNameLen == 4
MaxEpochDay == 90
MaxAppends == 3
MaxMapperCluster == 12
MaxFatWrites == 4
\* write_byte calls explored per run of the FAT-copies specification
MaxMirrorWrites == 2
\* write_byte calls explored per run of the boot-sector specification
MaxBootWrites == 1

(***************************************************************************)
(* shortname.rs                                                            *)
(***************************************************************************)
SHORT_NAME_LENGTH == 8
SHORT_NAME_EXT_LENGTH == 3
SHORT_NAME_FULL_LENGTH == SHORT_NAME_EXT_LENGTH + SHORT_NAME_LENGTH

is_ascii_uppercase(c) == c >= 65 /\ c <= 90
is_ascii_lowercase(c) == c >= 97 /\ c <= 122
is_ascii_digit(c) == c >= 48 /\ c <= 57
to_ascii_uppercase(c) == IF is_ascii_lowercase(c) THEN c - 32 ELSE c

\* ' ', '.', NUL
is_end_marker(inp) == inp = 32 \/ inp = 46 \/ inp = 0

\* a byte of 128 or more is part of a multi-byte character (len_utf8 > 1)
is_valid_char(inp) ==
    /\ inp < 128
    /\ \/ is_ascii_uppercase(inp)
       \/ is_ascii_lowercase(inp)
       \/ is_ascii_digit(inp)
       \/ is_end_marker(inp)
       \/ inp \in {33, 64, 35, 36, 37, 94, 38, 40, 41, 123, 125}

case_val(inp) ==
    IF is_ascii_lowercase(inp) THEN 1
    ELSE IF is_ascii_uppercase(inp) THEN 2
    ELSE 0

ShortName_default == [data |-> [i \in 1..11 |-> 32], lower_name |-> FALSE, lower_ext |-> FALSE]

\* First loop of from_str, at character index idx (0-based).  The result is
\* None when the name is rejected, else the state the loop ends in.
RECURSIVE from_str_name_loop(_, _, _, _)
from_str_name_loop(name, idx, retval, name_case) ==
    IF idx >= Len(name)
    THEN Some([retval |-> retval, ext_idx |-> Len(name), name_case |-> name_case])
    ELSE LET c == name[idx + 1]
             case == case_val(c)
         IN  IF idx > 7 \/ ~is_valid_char(c) \/ name_case + case = 3
             THEN None
             ELSE IF is_end_marker(c)
             THEN Some([retval |-> retval, ext_idx |-> idx, name_case |-> name_case])
             ELSE IF name_case = 0 /\ case # 0
             THEN from_str_name_loop(name, idx + 1,
                      [retval EXCEPT !.data[idx + 1] = c, !.lower_name = (case = 1)], case)
             ELSE from_str_name_loop(name, idx + 1,
                      [retval EXCEPT !.data[idx + 1] = c], name_case)

\* Second loop of from_str; pos is the character index in name (0-based).
RECURSIVE from_str_ext_loop(_, _, _, _, _, _)
from_str_ext_loop(name, pos, ext_idx, retval, name_case, ext_case) ==
    IF pos >= Len(name)
    THEN Some(retval)
    ELSE LET c == name[pos + 1]
             idx == pos - ext_idx - 1
             case == case_val(c)
         IN  IF idx > 2 \/ ~is_valid_char(c) \/ name_case + case = 3
             THEN None
             ELSE IF is_end_marker(c)
             THEN Some(retval)
             ELSE IF ext_case = 0 /\ case # 0
             THEN from_str_ext_loop(name, pos + 1, ext_idx,
                      [retval EXCEPT !.data[idx + 9] = c, !.lower_ext = (case = 1)],
                      name_case, case)
             ELSE from_str_ext_loop(name, pos + 1, ext_idx,
                      [retval EXCEPT !.data[idx + 9] = c], name_case, ext_case)

from_str(name) ==
    IF Len(name) > SHORT_NAME_FULL_LENGTH \/ Len(name) = 0
    THEN None
    ELSE LET first == from_str_name_loop(name, 0, ShortName_default, 0)
         IN  IF ~IsSome(first) THEN None
             ELSE IF Unwrap(first).ext_idx = 0 THEN None
             ELSE IF Unwrap(first).ext_idx = Len(name) THEN Some(Unwrap(first).retval)
             ELSE from_str_ext_loop(name, Unwrap(first).ext_idx + 1, Unwrap(first).ext_idx,
                      Unwrap(first).retval, Unwrap(first).name_case, 0)

\* ShortName::wrap_str is called by longname.rs but is not in the sources;
\* it is the short-name parse of section 4.1 ("lfn_count(name): 0 if
\* parse(name) succeeds").
wrap_str(name) == from_str(name)

\* to_valid_shortname: end markers are dropped, an invalid character becomes
\* '_', every other character is upper-cased.
to_valid_shortname(raw) ==
    LET kept == SelectSeq(raw, LAMBDA c : ~is_end_marker(c))
    IN  [i \in 1..Len(kept) |->
            IF ~is_valid_char(kept[i]) THEN 95 ELSE to_ascii_uppercase(kept[i])]

\* 0-based index of the last '.', or -1
rfind_dot(name) ==
    LET dots == {i \in 1..Len(name) : name[i] = 46}
    IN  IF dots = {} THEN -1
        ELSE (CHOOSE i \in dots : \A j \in dots : j <= i) - 1

\* the decimal digits of duplicate_count written from cur_idx downwards,
\* then '~' before them
RECURSIVE convert_str_suffix(_, _, _)
convert_str_suffix(data, suffix_digits_left, cur_idx) ==
    IF suffix_digits_left > 0
    THEN convert_str_suffix([data EXCEPT ![cur_idx + 1] = (suffix_digits_left % 10) + 48],
                            suffix_digits_left \div 10, cur_idx - 1)
    ELSE [data EXCEPT ![cur_idx + 1] = 126]

convert_str(name, duplicate_count) ==
    IF IsSome(from_str(name)) THEN Unwrap(from_str(name))
    ELSE LET ext_idx == rfind_dot(name)
             name_part_raw == IF ext_idx >= 0 THEN SubSeq(name, 1, ext_idx) ELSE name
             ext_part_raw == IF ext_idx >= 0 THEN SubSeq(name, ext_idx + 1, Len(name)) ELSE <<>>
             name_part == to_valid_shortname(name_part_raw)
             ext_part == to_valid_shortname(ext_part_raw)
             filled == [i \in 1..11 |->
                           IF i <= 8
                           THEN (IF i <= Len(name_part) THEN name_part[i] ELSE 32)
                           ELSE (IF i - 8 <= Len(ext_part) THEN ext_part[i - 8] ELSE 32)]
             data == IF duplicate_count = 0
                     THEN [filled EXCEPT ![7] = 126, ![8] = 126]
                     ELSE convert_str_suffix(filled, duplicate_count, 7)
         IN  [data |-> data, lower_name |-> FALSE, lower_ext |-> FALSE]

\* number of leading bytes of data[from..to] (1-based, inclusive) that are
\* not end markers
RECURSIVE take_while_not_end(_, _, _)
take_while_not_end(data, from, to) ==
    IF from > to \/ is_end_marker(data[from]) THEN 0
    ELSE 1 + take_while_not_end(data, from + 1, to)

name_len(self) == take_while_not_end(self.data, 1, 8)

ext_len(self) == take_while_not_end(self.data, 9, 11)

ShortName_name(self) == SubSeq(self.data, 1, name_len(self))

ShortName_ext(self) == SubSeq(self.data, 9, 8 + ext_len(self))

ShortName_read_byte(self, idx) ==
    IF idx = 0 /\ self.data[1] = 229 THEN 5
    ELSE IF idx < 11 THEN self.data[idx + 1]
    ELSE 0

case_flag(self) ==
    IF self.lower_name /\ self.lower_ext THEN 24
    ELSE IF self.lower_name THEN 8
    ELSE IF self.lower_ext THEN 16
    ELSE 0

RECURSIVE lfn_checksum_loop(_, _, _)
lfn_checksum_loop(data, i, retval) ==
    IF i > 11 THEN retval
    ELSE LET shifted_retval == ((retval % 2) * 128) + (retval \div 2)
         IN  lfn_checksum_loop(data, i + 1, (shifted_retval + data[i]) % 256)

\* lfn_checksum adding the bytes up without rotating the sum
lfn_checksum_unrotated(self) ==
    (self.data[1] + self.data[2] + self.data[3] + self.data[4] + self.data[5] + self.data[6]
        + self.data[7] + self.data[8] + self.data[9] + self.data[10] + self.data[11]) % 256

lfn_checksum(self) == lfn_checksum_loop(self.data, 1, 0)

(***************************************************************************)
(* datetime.rs                                                             *)
(***************************************************************************)
Date_default == [year |-> 1980, month |-> 1, day |-> 1]
Time_default == [hour |-> 0, minute |-> 0, second |-> 0, tenths |-> 0]

\* u16 arithmetic: the year part is shifted out of 16 bits
Date_fat_encode(self) ==
    LET epoch_year == (self.year - 1980) % 65536
        year_part == (epoch_year * 512) % 65536
        month_part == (self.month * 32) % 65536
        day_part == self.day
    IN  BitOr(BitOr(year_part, month_part), day_part)

NONLEAP_MONTH_RANGES == <<0, 31, 59, 90, 120, 151, 181, 212, 243, 273, 304, 334, 365>>
LEAP_MONTH_RANGES == <<0, 31, 60, 91, 121, 152, 182, 213, 244, 274, 305, 335, 366>>

\* `x as i32` of a u64 below 2^32 (the integers of the model checker end at
\* 2^31 - 1, so 2^32 is written as a sum)
AsI32(x) == IF x <= 2147483647 THEN x ELSE ((x - 2147483647) - 2147483647) - 2

\* the for loop of from_epoch_millis from idx (0-based) on: <<month, day>>
RECURSIVE month_loop(_, _, _)
month_loop(month_ranges, year_offset, idx) ==
    IF idx >= 13 THEN <<0, 0>>
    ELSE IF year_offset < month_ranges[idx + 1]
    THEN <<idx, IF idx = 0 THEN (year_offset + 1) % 65536
                ELSE (year_offset - month_ranges[idx] + 1) % 65536>>
    ELSE month_loop(month_ranges, year_offset, idx + 1)

\* A u64 of milliseconds is held as [days, rest], standing for
\* days * 86400000 + rest with rest < 86400000, since the number itself is
\* beyond the integers of the model checker.
MILLIS_PER_DAY == 24 * 60 * 60 * 1000

\* millis / (24 * 60 * 60 * 1000)
millis_div_day(millis) == millis.days + (millis.rest \div MILLIS_PER_DAY)

\* the locals of Date::from_epoch_millis, with the wrapping arithmetic of a
\* release build
from_epoch_millis_locals(millis) ==
    LET days_since_epoch == millis_div_day(millis)
        unleaped_years_since_epoch == days_since_epoch \div 365
        leap_years == unleaped_years_since_epoch \div 4
        raw_year_offset == (AsI32(days_since_epoch) % 365) - AsI32(leap_years)
        years == IF raw_year_offset < 0
                 THEN (unleaped_years_since_epoch - 1) % 65536
                 ELSE unleaped_years_since_epoch % 65536
        year_offset == IF raw_year_offset < 0
                       THEN (raw_year_offset + 365) % 65536
                       ELSE raw_year_offset % 65536
        month_ranges == IF years % 4 = 0 THEN LEAP_MONTH_RANGES ELSE NONLEAP_MONTH_RANGES
        found == month_loop(month_ranges, year_offset, 0)
    IN  [unleaped_years_since_epoch |-> unleaped_years_since_epoch,
         raw_year_offset |-> raw_year_offset, years |-> years,
         year_offset |-> year_offset, month |-> found[1], day |-> found[2]]

Date_from_epoch_millis(millis) ==
    LET l == from_epoch_millis_locals(millis)
    IN  [year |-> (1970 + l.years) % 65536, month |-> l.month % 256, day |-> l.day % 256]

\* what a debug build checks on the way: the debug_assert of the function,
\* the overflow checks, and the debug_asserts of with_day, with_month and
\* with_year
from_epoch_millis_asserts(millis) ==
    LET l == from_epoch_millis_locals(millis)
    IN  /\ l.raw_year_offset < 365 /\ l.raw_year_offset > -365
        /\ l.raw_year_offset < 0 => l.unleaped_years_since_epoch >= 1
        /\ 1970 + l.years < 65536
        /\ l.day % 256 <= 31 /\ l.day % 256 > 0
        /\ l.month % 256 <= 12 /\ l.month % 256 > 0
        /\ (1970 + l.years) % 65536 >= 1980

fat_encode_simple(self) ==
    LET hour_part == (self.hour * 2048) % 65536
        min_part == self.minute * 32
        sec_part == self.second \div 2
    IN  BitOr(BitOr(hour_part, min_part), sec_part)

fat_encode_hi_res(self) ==
    LET second_mod_part == (self.second % 2) * 100
    IN  BitOr(second_mod_part, self.tenths)

\* Time::decode: `encoded` is a u16
Time_decode(encoded) ==
    LET hour == (encoded \div 2048) % 256
        min == BitAnd(encoded \div 32, 63) % 256
        sec == (BitAnd(encoded, 31) * 2) % 256
    IN  [Time_default EXCEPT !.hour = hour, !.minute = min, !.second = sec]

\* the debug assertions of with_hour, with_minute and with_second in decode
Time_decode_asserts(encoded) ==
    /\ Time_decode(encoded).hour <= 23
    /\ Time_decode(encoded).minute <= 59
    /\ Time_decode(encoded).second <= 59

with_hi_res_asserts(hi_res_info) ==
    hi_res_info <= 9 \/ (hi_res_info >= 100 /\ hi_res_info <= 109)

with_hi_res(self, hi_res_info) ==
    [self EXCEPT !.second = (self.second - (self.second % 2)) + (hi_res_info \div 100),
                 !.tenths = hi_res_info % 100]

(***************************************************************************)
(* dirent.rs                                                               *)
(***************************************************************************)
ENTRY_SIZE == 32

FileAttributes_file == 0
FileAttributes_directory == 16
\* volume_label().and_read_only().and_hidden().and_system()
FileAttributes_lfn == BitOr(BitOr(BitOr(8, 1), 2), 4)
is_directory(attrs) == BitAnd(attrs, 16) # 0

FileDirEntry_default ==
    [name |-> ShortName_default, attrs |-> 0,
     create_time |-> Time_default, create_date |-> Date_default,
     access_date |-> Date_default, first_cluster |-> 0,
     modify_time |-> Time_default, modify_date |-> Date_default, size |-> 0]

FileDirEntry_read_byte(self, idx) ==
    CASE idx <= 10 -> ShortName_read_byte(self.name, idx)
      [] idx = 11 -> self.attrs
      [] idx = 12 -> case_flag(self.name)
      [] idx = 13 -> fat_encode_hi_res(self.create_time)
      [] idx = 14 -> fat_encode_simple(self.create_time) % 256
      [] idx = 15 -> (fat_encode_simple(self.create_time) \div 256) % 256
      [] idx = 16 -> Date_fat_encode(self.create_date) % 256
      [] idx = 17 -> (Date_fat_encode(self.create_date) \div 256) % 256
      [] idx = 18 -> Date_fat_encode(self.access_date) % 256
      [] idx = 19 -> (Date_fat_encode(self.access_date) \div 256) % 256
      [] idx = 20 -> (self.first_cluster \div 65536) % 256
      [] idx = 21 -> (self.first_cluster \div 16777216) % 256
      [] idx = 22 -> fat_encode_simple(self.modify_time) % 256
      [] idx = 23 -> (fat_encode_simple(self.modify_time) \div 256) % 256
      [] idx = 24 -> Date_fat_encode(self.modify_date) % 256
      [] idx = 25 -> (Date_fat_encode(self.modify_date) \div 256) % 256
      [] idx = 26 -> self.first_cluster % 256
      [] idx = 27 -> (self.first_cluster \div 256) % 256
      [] idx = 28 -> self.size % 256
      [] idx = 29 -> (self.size \div 256) % 256
      [] idx = 30 -> (self.size \div 65536) % 256
      [] idx = 31 -> (self.size \div 16777216) % 256
      [] OTHER -> 0

LfnDirEntry_default ==
    [entry_num |-> 0, attrs |-> FileAttributes_lfn, checksum |-> 0,
     name_part |-> [i \in 1..13 |-> 0]]

LfnDirEntry_read_byte(self, idx) ==
    CASE idx = 0 -> self.entry_num
      [] idx = 1 -> self.name_part[1]
      [] idx = 3 -> self.name_part[2]
      [] idx = 5 -> self.name_part[3]
      [] idx = 7 -> self.name_part[4]
      [] idx = 9 -> self.name_part[5]
      [] idx = 11 -> self.attrs
      [] idx = 12 -> 0
      [] idx = 13 -> self.checksum
      [] idx = 14 -> self.name_part[6]
      [] idx = 16 -> self.name_part[7]
      [] idx = 18 -> self.name_part[8]
      [] idx = 20 -> self.name_part[9]
      [] idx = 22 -> self.name_part[10]
      [] idx = 24 -> self.name_part[11]
      [] idx = 28 -> self.name_part[12]
      [] idx = 30 -> self.name_part[13]
      [] OTHER -> 0

\* EmptyDirEntry::read_byte as an all-zero entry
EmptyDirEntry_read_byte_zeroed(idx) == 0

EmptyDirEntry_read_byte(idx) ==
    CASE idx = 0 -> 0
      [] idx = 11 -> 64
      [] OTHER -> 0

\* Fat32DirectoryEntry is [kind, ent]: File(FileDirEntry),
\* LongFileName(LfnDirEntry) or Empty
Fat32DirectoryEntry_empty == [kind |-> "Empty", ent |-> <<>>]

Fat32DirectoryEntry_read_byte(self, idx) ==
    CASE self.kind = "File" -> FileDirEntry_read_byte(self.ent, idx)
      [] self.kind = "LongFileName" -> LfnDirEntry_read_byte(self.ent, idx)
      [] self.kind = "Empty" -> EmptyDirEntry_read_byte(idx)

(***************************************************************************)
(* traits.rs                                                               *)
(***************************************************************************)
to_dirent(meta) ==
    LET attrs0 == IF meta.is_directory THEN FileAttributes_directory ELSE FileAttributes_file
        attrs1 == IF meta.is_hidden THEN BitOr(attrs0, 2) ELSE attrs0
        attrs2 == IF meta.is_read_only THEN BitOr(attrs1, 1) ELSE attrs1
    IN  [FileDirEntry_default EXCEPT
            !.create_time = meta.create_time, !.create_date = meta.create_date,
            !.modify_time = meta.modify_time, !.modify_date = meta.modify_date,
            !.access_date = meta.access_date, !.size = meta.size, !.attrs = attrs2]

(***************************************************************************)
(* longname.rs                                                             *)
(***************************************************************************)
lfn_count_for_name(name) ==
    IF IsSome(wrap_str(name)) THEN 0
    ELSE (Len(name) \div 13) + (IF Len(name) % 13 # 0 THEN 1 ELSE 0)

\* The entries in order of creation: allocation[idx] (0-based idx) holds the
\* idx-th 13-byte chunk of the name.  The result is the written prefix of
\* the allocation.
construct_name_entries(name, base) ==
    LET entries_len == lfn_count_for_name(name)
        checksum == lfn_checksum(base.name)
    IN  [i \in 1..entries_len |->
            LET idx == i - 1
                part == SubSeq(name, 13 * idx + 1, Min(13 * idx + 13, Len(name)))
            IN  [LfnDirEntry_default EXCEPT
                    !.entry_num = IF idx = entries_len - 1
                                  THEN BitOr(64, 1 + idx)
                                  ELSE 1 + idx,
                    !.checksum = checksum,
                    !.name_part = [j \in 1..13 |-> IF j <= Len(part) THEN part[j] ELSE 0]]]

(***************************************************************************)
(* pathbuffer.rs (heap-backed PathBuff)                                    *)
(***************************************************************************)
PathBuff_default == [bytes |-> <<47>>, is_file |-> FALSE]

add_subdir(self, component) ==
    LET ext == self.bytes \o component
    IN  [self EXCEPT !.bytes = IF ext[Len(ext)] # 47 THEN Append(ext, 47) ELSE ext]

add_file(self, file_name) ==
    [bytes |-> self.bytes \o file_name, is_file |-> TRUE]

to_str(self) == self.bytes

(***************************************************************************)
(* The backing store (traits.rs: FileSystemOps, DirectoryOps, DirEntryOps, *)
(* FileOps).  A tree maps the components of a directory's path to the      *)
(* directory's entries in iteration order; repeated '/' in a path are      *)
(* ignored, as by a POSIX store.                                           *)
(***************************************************************************)
Stamp == [hour |-> 12, minute |-> 34, second |-> 57, tenths |-> 5]
Day == [year |-> 2019, month |-> 7, day |-> 4]

Meta(is_dir, size) ==
    [is_directory |-> is_dir, is_hidden |-> FALSE, is_read_only |-> FALSE,
     create_time |-> Stamp, create_date |-> Day, access_date |-> Day,
     modify_time |-> Stamp, modify_date |-> Day, size |-> size]

\* a directory entry of the backing store; text is the head of a file's
\* content, the rest of the content is a fixed non-zero pattern
DirEnt(name, is_dir, size, text) == [name |-> name, meta |-> Meta(is_dir, size), text |-> text]

NameREADME == <<82, 69, 65, 68, 77, 69, 46, 84, 88, 84>>
NameLong == <<82, 101, 97, 100, 77, 101, 76, 111, 110, 103, 78, 97, 109, 101, 46, 116, 120, 116>>
NameDOCS == <<68, 79, 67, 83>>
NameHelloTxt == <<104, 101, 108, 108, 111, 46, 116, 120, 116>>
NameLongData == <<76, 111, 110, 103, 70, 105, 108, 101, 78, 97, 109, 101, 46, 100, 97, 116, 97>>
NameEMPTY == <<69, 77, 80, 84, 89>>
TextHello == <<104, 101, 108, 108, 111>>
\* children of the root of the tree with a two-cluster root directory
ManyCount == 7
\* the names of all but the last of them are stretched by this many bytes
LongPad == 223
\* "xx...xa-rather-long-file-name-000", ..., "a-rather-long-file-name-006":
\* the stretched names take 20 LFN entries each, the last name takes 3
NameNumbered(i) ==
    [k \in 1..(IF i < ManyCount - 1 THEN LongPad ELSE 0) |-> 120]
    \o <<97, 45, 114, 97, 116, 104, 101, 114, 45, 108, 111, 110, 103, 45, 102, 105, 108, 101, 45, 110, 97, 109, 101, 45>>
    \o <<48 + (i \div 100), 48 + ((i \div 10) % 10), 48 + (i % 10)>>

\* size of the file that spans two clusters
BigSize == 4100

TreeIds == {"empty", "readme", "longname", "nested", "many"}

TreeOf(id) ==
    CASE id = "empty" -> (<<>> :> <<>>)
      [] id = "readme" -> (<<>> :> <<DirEnt(NameREADME, FALSE, 5, TextHello)>>)
      [] id = "longname" -> (<<>> :> <<DirEnt(NameLong, FALSE, 0, <<>>)>>)
      [] id = "nested" ->
            (<<>> :> <<DirEnt(NameDOCS, TRUE, 0, <<>>),
                       DirEnt(NameHelloTxt, FALSE, 5, TextHello)>>)
            @@ (<<NameDOCS>> :> <<DirEnt(NameLongData, FALSE, BigSize, <<>>),
                                   DirEnt(NameEMPTY, FALSE, 0, <<>>)>>)
      [] id = "many" ->
            (<<>> :> [i \in 1..ManyCount |->
                         DirEnt(NameNumbered(i - 1), FALSE, IF i = ManyCount THEN 5 ELSE 0,
                                IF i = ManyCount THEN TextHello ELSE <<>>)])


\* the non-empty components of a path
RECURSIVE Components(_, _, _)
Components(path, i, cur) ==
    IF i > Len(path)
    THEN (IF cur = <<>> THEN <<>> ELSE <<cur>>)
    ELSE IF path[i] = 47
    THEN (IF cur = <<>> THEN <<>> ELSE <<cur>>) \o Components(path, i + 1, <<>>)
    ELSE Components(path, i + 1, Append(cur, path[i]))

RECURSIVE FindEntry(_, _, _)
FindEntry(ents, name, i) ==
    IF i > Len(ents) THEN None
    ELSE IF ents[i].name = name THEN Some(ents[i])
    ELSE FindEntry(ents, name, i + 1)

\* the entry that a path names in its parent directory
Lookup(tree, path) ==
    LET comps == Components(path, 1, <<>>)
        parent == SubSeq(comps, 1, Len(comps) - 1)
    IN  IF comps = <<>> \/ parent \notin DOMAIN tree THEN None
        ELSE FindEntry(tree[parent], comps[Len(comps)], 1)

get_dir(tree, path) ==
    LET comps == Components(path, 1, <<>>)
    IN  IF comps \in DOMAIN tree THEN Some(comps) ELSE None

get_metadata(tree, path) ==
    IF Components(path, 1, <<>>) = <<>> THEN Some(Meta(TRUE, 0))
    ELSE IF IsSome(Lookup(tree, path)) THEN Some(Unwrap(Lookup(tree, path)).meta)
    ELSE None

get_file(tree, path) ==
    IF IsSome(Lookup(tree, path)) /\ ~Unwrap(Lookup(tree, path)).meta.is_directory
    THEN Lookup(tree, path)
    ELSE None

entries(tree, directory) == tree[directory]

FileContent(file, i) ==
    IF i < Len(file.text) THEN file.text[i + 1] ELSE 1 + ((7 * i) % 251)

\* FileOps::read_at: the bytes copied into a buffer of buflen bytes
FileOps_read_at(file, offset, buflen) ==
    LET n == Max(0, Min(buflen, file.meta.size - offset))
    IN  [i \in 1..n |-> FileContent(file, offset + i - 1)]

\* FileOps::read_byte is used by faker.rs but is not in the sources: the
\* byte at offset, or None at or past the end of the file (section 4.7 and
\* scenario 2: "offset 5..bytes_per_cluster-1 reads 0").
FileOps_read_byte(file, offset) ==
    IF offset < file.meta.size THEN Some(FileContent(file, offset)) ELSE None

(***************************************************************************)
(* clustermapping.rs (heap-backed AllocClusterMapper)                      *)
(***************************************************************************)
ClusterMapper_new == [cluster_mapping |-> [c \in {} |-> <<>>], path_mapping |-> [p \in {} |-> <<>>]]

get_path_for_cluster(self, cluster) ==
    IF cluster \in DOMAIN self.cluster_mapping THEN Some(self.cluster_mapping[cluster]) ELSE None

get_chain_for_path(self, path) ==
    IF path \in DOMAIN self.path_mapping THEN self.path_mapping[path] ELSE <<>>

add_cluster_to_path(self, path, cluster) ==
    LET pm == IF path \in DOMAIN self.path_mapping
              THEN self.path_mapping
              ELSE (path :> <<>>) @@ self.path_mapping
    IN  [cluster_mapping |-> (cluster :> path) @@ self.cluster_mapping,
         path_mapping |-> [pm EXCEPT ![path] = Append(@, cluster)]]

is_allocated(self, cluster) == cluster \in DOMAIN self.cluster_mapping

get_chain_with_cluster(self, cluster) ==
    IF IsSome(get_path_for_cluster(self, cluster))
    THEN Some(get_chain_for_path(self, Unwrap(get_path_for_cluster(self, cluster))))
    ELSE None

get_chain_head_for_path(self, path) ==
    IF get_chain_for_path(self, path) = <<>> THEN None
    ELSE Some(Head(get_chain_for_path(self, path)))

(***************************************************************************)
(* bpb.rs                                                                  *)
(***************************************************************************)
FAT_COUNT == 2
RESERVED_SECTORS == 8
MEDIA == 248
SECTORS_PER_TRACK == 32
ROOT_DIR_FIRST_CLUSTER == 2
HEADS == 64
BACKUP_BOOT_SECTOR == 6
DRIVE_NUM == 128
FAT_32_LABEL == <<70, 65, 84, 51, 50, 32, 32, 32>>
BiosParameterBlock_SIZE == 512

BiosParameterBlock_default ==
    [bytes_per_sector |-> 512, sectors_per_cluster |-> 8,
     reserved_sectors |-> RESERVED_SECTORS, fats |-> FAT_COUNT, media |-> MEDIA,
     sectors_per_track |-> SECTORS_PER_TRACK, heads |-> HEADS, hidden_sectors |-> 0,
     total_sectors_32 |-> 0, sectors_per_fat_32 |-> 0, extended_flags |-> 0,
     root_dir_first_cluster |-> ROOT_DIR_FIRST_CLUSTER, fs_info_sector |-> 1,
     backup_boot_sector |-> BACKUP_BOOT_SECTOR, drive_num |-> DRIVE_NUM,
     volume_id |-> 0, volume_label |-> [i \in 1..11 |-> 0], read_idx |-> 0]

\* read_byte without the signature bytes 0x55 0xAA at 510 and 511
BiosParameterBlock_read_byte_unsigned(self, idx0) ==
    IF idx0 < 11 THEN 97
    ELSE LET idx == idx0 - 11
         IN  CASE idx = 0 -> self.bytes_per_sector % 256
               [] idx = 1 -> (self.bytes_per_sector \div 256) % 256
               [] idx = 2 -> self.sectors_per_cluster
               [] idx = 3 -> self.reserved_sectors % 256
               [] idx = 4 -> (self.reserved_sectors \div 256) % 256
               [] idx = 5 -> self.fats
               [] idx \in 6..9 -> 0
               [] idx = 10 -> self.media
               [] idx \in 11..12 -> 0
               [] idx = 13 -> self.sectors_per_track % 256
               [] idx = 14 -> (self.sectors_per_track \div 256) % 256
               [] idx = 15 -> self.heads % 256
               [] idx = 16 -> (self.heads \div 256) % 256
               [] idx \in 17..20 -> U32Bytes(self.hidden_sectors)[idx - 16]
               [] idx \in 21..24 -> U32Bytes(self.total_sectors_32)[idx - 20]
               [] idx \in 25..28 -> U32Bytes(self.sectors_per_fat_32)[idx - 24]
               [] idx = 29 -> self.extended_flags % 256
               [] idx = 30 -> (self.extended_flags \div 256) % 256
               [] idx \in 31..32 -> 0
               [] idx \in 33..36 -> U32Bytes(self.root_dir_first_cluster)[idx - 32]
               [] idx = 37 -> self.fs_info_sector % 256
               [] idx = 38 -> (self.fs_info_sector \div 256) % 256
               [] idx = 39 -> self.backup_boot_sector % 256
               [] idx = 40 -> (self.backup_boot_sector \div 256) % 256
               [] idx \in 41..52 -> 0
               [] idx = 53 -> self.drive_num
               [] idx = 54 -> 0
               [] idx = 55 -> 41
               [] idx \in 56..59 -> U32Bytes(self.volume_id)[idx - 55]
               [] idx \in 60..70 -> self.volume_label[idx - 59]
               [] idx \in 71..78 -> FAT_32_LABEL[idx - 70]
               [] OTHER -> 0

BiosParameterBlock_read_byte(self, idx0) ==
    IF idx0 < 11 THEN 97
    ELSE IF idx0 = 510 THEN 85
    ELSE IF idx0 = 511 THEN 170
    ELSE LET idx == idx0 - 11
         IN  CASE idx = 0 -> self.bytes_per_sector % 256
               [] idx = 1 -> (self.bytes_per_sector \div 256) % 256
               [] idx = 2 -> self.sectors_per_cluster
               [] idx = 3 -> self.reserved_sectors % 256
               [] idx = 4 -> (self.reserved_sectors \div 256) % 256
               [] idx = 5 -> self.fats
               [] idx \in 6..9 -> 0
               [] idx = 10 -> self.media
               [] idx \in 11..12 -> 0
               [] idx = 13 -> self.sectors_per_track % 256
               [] idx = 14 -> (self.sectors_per_track \div 256) % 256
               [] idx = 15 -> self.heads % 256
               [] idx = 16 -> (self.heads \div 256) % 256
               [] idx \in 17..20 -> U32Bytes(self.hidden_sectors)[idx - 16]
               [] idx \in 21..24 -> U32Bytes(self.total_sectors_32)[idx - 20]
               [] idx \in 25..28 -> U32Bytes(self.sectors_per_fat_32)[idx - 24]
               [] idx = 29 -> self.extended_flags % 256
               [] idx = 30 -> (self.extended_flags \div 256) % 256
               [] idx \in 31..32 -> 0
               [] idx \in 33..36 -> U32Bytes(self.root_dir_first_cluster)[idx - 32]
               [] idx = 37 -> self.fs_info_sector % 256
               [] idx = 38 -> (self.fs_info_sector \div 256) % 256
               [] idx = 39 -> self.backup_boot_sector % 256
               [] idx = 40 -> (self.backup_boot_sector \div 256) % 256
               [] idx \in 41..52 -> 0
               [] idx = 53 -> self.drive_num
               [] idx = 54 -> 0
               [] idx = 55 -> 41
               [] idx \in 56..59 -> U32Bytes(self.volume_id)[idx - 55]
               [] idx \in 60..70 -> self.volume_label[idx - 59]
               [] idx \in 71..78 -> FAT_32_LABEL[idx - 70]
               [] OTHER -> 0

bytes_per_cluster(self) == self.bytes_per_sector * self.sectors_per_cluster

fat_start(self) == self.reserved_sectors * self.bytes_per_sector

fat_end(self) == fat_start(self) + self.fats * self.sectors_per_fat_32 * self.bytes_per_sector

\* default_sectors_per_fat leaving the sectors of the FAT copies themselves
\* out of the divisor
default_sectors_per_fat_plain(self) ==
    LET top == self.total_sectors_32 - self.reserved_sectors + 2 * self.sectors_per_cluster
        bottom == bytes_per_cluster(self) \div 4
    IN  top \div bottom

default_sectors_per_fat(self) ==
    LET top == self.total_sectors_32 - self.reserved_sectors + 2 * self.sectors_per_cluster
        bottom == self.fats + bytes_per_cluster(self) \div 4
    IN  top \div bottom

(***************************************************************************)
(* fsinfo.rs                                                               *)
(***************************************************************************)
FsInfoSector_SIZE == 512

\* free_count and next_free are 0xFFFF_FFFF, held as little-endian bytes
FsInfoSector_default == [free_count |-> <<255, 255, 255, 255>>, next_free |-> <<255, 255, 255, 255>>]

FsInfoSector_read_byte(self, idx) ==
    CASE idx \in {0, 1} -> 82
      [] idx = 2 -> 97
      [] idx = 3 -> 65
      [] idx \in {484, 485} -> 114
      [] idx = 486 -> 65
      [] idx = 487 -> 97
      [] idx \in 488..491 -> self.free_count[idx - 487]
      [] idx \in 492..495 -> self.next_free[idx - 491]
      [] idx = 510 -> 85
      [] idx = 511 -> 170
      [] OTHER -> 0

(***************************************************************************)
(* fat.rs                                                                  *)
(***************************************************************************)
BAD_ENTRY == 268435447
END_OF_CHAIN == 268435455
FREE_ENTRY == 0

Free == [tag |-> "Free"]
Bad == [tag |-> "Bad"]
End == [tag |-> "End"]
\* n is the u32 as little-endian bytes
FatEntryValue_Next(n) == [tag |-> "Next", n |-> n]

\* 0x0FFFFFF8..=0x0FFFFFFF
InEndRange(inner) ==
    /\ inner[4] = 15 /\ inner[3] = 255 /\ inner[2] = 255
    /\ inner[1] >= 248

\* From<u32> for FatEntryValue
FatEntryValue_from(inner) ==
    IF inner = U32Bytes(FREE_ENTRY) THEN Free
    ELSE IF inner = U32Bytes(BAD_ENTRY) THEN Bad
    ELSE IF InEndRange(inner) THEN End
    ELSE FatEntryValue_Next(inner)

\* From<FatEntryValue> for u32
u32_from(wrapped) ==
    CASE wrapped.tag = "Free" -> U32Bytes(FREE_ENTRY)
      [] wrapped.tag = "Bad" -> U32Bytes(BAD_ENTRY)
      [] wrapped.tag = "End" -> U32Bytes(END_OF_CHAIN)
      [] wrapped.tag = "Next" -> wrapped.n

\* idx_to_cluster without the reduction: the index counted in entries from
\* the start of the first FAT
idx_to_cluster_unfolded(self, idx) ==
    LET reserved_sectors == self.reserved_sectors
        reserved_bytes == reserved_sectors * self.bytes_per_sector
        fat_offset == idx - reserved_bytes
        entry_cluster == fat_offset \div 4
    IN  entry_cluster

idx_to_cluster(self, idx) ==
    LET reserved_sectors == self.reserved_sectors
        reserved_bytes == reserved_sectors * self.bytes_per_sector
        fat_offset == (idx - reserved_bytes) % self.sectors_per_fat_32
        entry_cluster == fat_offset \div 4
    IN  entry_cluster

(***************************************************************************)
(* clustermapping.rs (fixed-capacity NopClusterMapper).  An array is held  *)
(* by what was written to it: `entries` is the prefix of the entry array   *)
(* that was touched, every entry after it is FileEntry::default(); `path`  *)
(* is the bytes written to the path array, every byte after them is 0;     *)
(* `chain` maps the written indices (0-based) of the chain array to the    *)
(* u32 written, as little-endian bytes, every other cell is u32::MAX.      *)
(***************************************************************************)
MAX_ENTRIES == 1024
MAX_CHAIN_LENGTH == 1024
MAX_PATH_LENGTH == 1024

U32_MAX == <<255, 255, 255, 255>>

FileEntry_default == [path |-> <<>>, chain |-> [k \in {} |-> U32_MAX]]

NopClusterMapper_new == [entries |-> <<>>]

\* self.entries[idx], idx 0-based and below MAX_ENTRIES
EntryAt(self, idx) ==
    IF idx < Len(self.entries) THEN self.entries[idx + 1] ELSE FileEntry_default

\* self.entries[idx] = ent
SetEntry(self, idx, ent) ==
    [entries |-> [i \in 1..Max(Len(self.entries), idx + 1) |->
                     IF i = idx + 1 THEN ent ELSE EntryAt(self, i - 1)]]

\* ent.path[idx] and ent.chain[idx], idx 0-based
PathByte(ent, idx) == IF idx < Len(ent.path) THEN ent.path[idx + 1] ELSE 0
ChainCell(ent, idx) == IF idx \in DOMAIN ent.chain THEN ent.chain[idx] ELSE U32_MAX

\* FileEntry::from_path; the loop writes path[idx] for every byte of the
\* path and so runs out of the array for a longer path
FileEntry_from_path(path) == [FileEntry_default EXCEPT !.path = path]
from_path_in_bounds(path) == Len(path) <= MAX_PATH_LENGTH

path_strlen(ent) ==
    LET zeros == {i \in 0..(Len(ent.path) - 1) : PathByte(ent, i) = 0}
    IN  IF zeros = {} THEN Len(ent.path)
        ELSE CHOOSE i \in zeros : \A j \in zeros : i <= j

path_str(ent) == SubSeq(ent.path, 1, path_strlen(ent))

\* the number of leading cells that do not decode to Bad
chain_count(ent) ==
    LET bad == {i \in DOMAIN ent.chain : FatEntryValue_from(ent.chain[i]) = Bad}
    IN  IF bad = {} THEN MAX_CHAIN_LENGTH
        ELSE CHOOSE i \in bad : \A j \in bad : i <= j

\* FileEntry::add_cluster where chain_count() is inside the array
FileEntry_add_cluster(ent, cluster) ==
    [ent EXCEPT !.chain = (chain_count(ent) :> cluster) @@ ent.chain]

\* (&ent.path[..path_bytes.len()]) == path_bytes
path_prefix_matches(ent, path_bytes) ==
    \A i \in 0..(Len(path_bytes) - 1) : PathByte(ent, i) = path_bytes[i + 1]

\* the index of the first entry of the array, touched or not, whose path
\* starts with the bytes of `path`
find_path_entry(self, path) ==
    IF Len(path) > MAX_PATH_LENGTH THEN None
    ELSE LET found == {idx \in 0..Min(Len(self.entries), MAX_ENTRIES - 1) :
                          path_prefix_matches(EntryAt(self, idx), path)}
         IN  IF found = {} THEN None
             ELSE Some(CHOOSE idx \in found : \A j \in found : idx <= j)

\* the first cell before the first Bad cell that holds `cluster`
chain_find(ent, cluster) ==
    LET found == {i \in 0..(chain_count(ent) - 1) : ChainCell(ent, i) = cluster}
    IN  IF found = {} THEN None
        ELSE Some(CHOOSE i \in found : \A j \in found : i <= j)

find_cluster_entry(self, cluster) ==
    LET found == {idx \in 0..Min(Len(self.entries), MAX_ENTRIES - 1) :
                     IsSome(chain_find(EntryAt(self, idx), cluster))}
    IN  IF found = {} THEN None
        ELSE LET path_idx == CHOOSE idx \in found : \A j \in found : idx <= j
             IN  Some(<<path_idx, Unwrap(chain_find(EntryAt(self, path_idx), cluster))>>)

\* the number of leading entries with a path
Nop_entry_count(self) ==
    LET empty == {idx \in 0..(Len(self.entries) - 1) : path_strlen(EntryAt(self, idx)) = 0}
    IN  IF empty = {} THEN Len(self.entries)
        ELSE CHOOSE idx \in empty : \A j \in empty : idx <= j

Nop_get_path_for_cluster(self, cluster) ==
    IF IsSome(find_cluster_entry(self, cluster))
    THEN Some(path_str(EntryAt(self, Unwrap(find_cluster_entry(self, cluster))[1])))
    ELSE None

\* what a ChainIter over the chain yields: the leading cells that decode to
\* Next
RECURSIVE ChainIter_collect(_, _)
ChainIter_collect(ent, idx) ==
    IF idx >= MAX_CHAIN_LENGTH THEN <<>>
    ELSE IF FatEntryValue_from(ChainCell(ent, idx)).tag = "Next"
    THEN <<ChainCell(ent, idx)>> \o ChainIter_collect(ent, idx + 1)
    ELSE <<>>

Nop_get_chain_for_path(self, path) ==
    IF IsSome(find_path_entry(self, path))
    THEN ChainIter_collect(EntryAt(self, Unwrap(find_path_entry(self, path))), 0)
    ELSE <<>>

\* add_cluster_to_path: the mapper it leaves, and whether an index ran out of
\* an array (which panics in every build)
Nop_add_cluster_to_path(self, path, cluster) ==
    LET existing == find_path_entry(self, path)
    IN  IF IsSome(existing)
        THEN LET entry == EntryAt(self, Unwrap(existing))
             IN  IF chain_count(entry) >= MAX_CHAIN_LENGTH
                 THEN [mapper |-> self, panic |-> TRUE]
                 ELSE [mapper |-> SetEntry(self, Unwrap(existing),
                                           FileEntry_add_cluster(entry, cluster)),
                       panic |-> FALSE]
        ELSE IF Nop_entry_count(self) >= MAX_ENTRIES \/ ~from_path_in_bounds(path)
        THEN [mapper |-> self, panic |-> TRUE]
        ELSE LET created == SetEntry(self, Nop_entry_count(self), FileEntry_from_path(path))
                 eidx == Nop_entry_count(created)
             IN  IF eidx >= MAX_ENTRIES \/ chain_count(EntryAt(created, eidx)) >= MAX_CHAIN_LENGTH
                 THEN [mapper |-> created, panic |-> TRUE]
                 ELSE [mapper |-> SetEntry(created, eidx,
                                           FileEntry_add_cluster(EntryAt(created, eidx), cluster)),
                       panic |-> FALSE]

Nop_is_allocated(self, cluster) == IsSome(find_cluster_entry(self, cluster))

Nop_get_chain_with_cluster(self, cluster) ==
    IF IsSome(Nop_get_path_for_cluster(self, cluster))
    THEN Some(Nop_get_chain_for_path(self, Unwrap(Nop_get_path_for_cluster(self, cluster))))
    ELSE None

Nop_get_chain_head_for_path(self, path) ==
    IF Nop_get_chain_for_path(self, path) = <<>> THEN None
    ELSE Some(Head(Nop_get_chain_for_path(self, path)))

(***************************************************************************)
(* changeset.rs (heap-backed AllocChangeSet).  A data buffer is            *)
(* vec![0; cluster_size] with a written prefix: it is held as that prefix, *)
(* every byte after it is 0.                                               *)
(***************************************************************************)
ChangeSet_new(size) == [entries |-> [c \in {} |-> <<>>], cluster_size |-> size]

cluster_entry(self, cluster) ==
    IF cluster \in DOMAIN self.entries THEN Some(self.entries[cluster].entry) ELSE None

set_cluster_entry(self, cluster, new_entry) ==
    [self EXCEPT !.entries[cluster].entry = new_entry]

cluster_data(self, cluster) ==
    IF cluster \in DOMAIN self.entries THEN Some(self.entries[cluster].data) ELSE None

\* buffer[offset] of a data buffer
BufferAt(buffer, offset) == IF offset < Len(buffer) THEN buffer[offset + 1] ELSE 0

\* insert_cluster followed by the caller's writes into the returned buffer
insert_cluster(self, cluster, entry, prefix) ==
    [self EXCEPT !.entries = (cluster :> [data |-> prefix, entry |-> entry]) @@ @]

(***************************************************************************)
(* faker.rs: the planner                                                   *)
(***************************************************************************)
\* the scan for a free cluster without looking at the mapper
skip_allocated_blind(mapper_, c) == c

\* while mapper.is_allocated(c) { c += 1 }
RECURSIVE skip_allocated(_, _)
skip_allocated(mapper_, c) ==
    IF is_allocated(mapper_, c) THEN skip_allocated(mapper_, c + 1) ELSE c

\* entry_count counting one entry per child, without its LFN entries
entry_count_sum_short(ents, i) == Len(ents) - (i - 1)

RECURSIVE entry_count_sum(_, _)
entry_count_sum(ents, i) ==
    IF i > Len(ents) THEN 0
    ELSE 1 + lfn_count_for_name(ents[i].name) + entry_count_sum(ents, i + 1)

CeilDiv(a, b) == (a \div b) + (IF a % b = 0 THEN 0 ELSE 1)

\* the loop that gives the directory its clusters (faker.rs 55-63)
RECURSIVE traverse_dir_clusters(_, _, _, _, _)
traverse_dir_clusters(mapper_, cur, cur_cluster, clusters, needed_clusters) ==
    IF clusters < needed_clusters
    THEN LET c == skip_allocated(mapper_, cur_cluster)
         IN  traverse_dir_clusters(add_cluster_to_path(mapper_, to_str(cur), c), cur, c,
                                   clusters + 1, needed_clusters)
    ELSE [mapper |-> mapper_, cur_cluster |-> cur_cluster]

\* the loop that gives one file its clusters, leaving max_cluster as it is
RECURSIVE traverse_file_clusters_unmaxed(_, _, _, _, _, _)
traverse_file_clusters_unmaxed(mapper_, path, cur_cluster, clusters, needed_subclusters, max_cluster) ==
    IF clusters < needed_subclusters
    THEN LET my_offset == skip_allocated(mapper_, cur_cluster + 12)
         IN  traverse_file_clusters_unmaxed(add_cluster_to_path(mapper_, to_str(path), my_offset),
                                            path, cur_cluster, clusters + 1, needed_subclusters,
                                            max_cluster)
    ELSE [mapper |-> mapper_, max_cluster |-> max_cluster]

\* the loop that gives one file its clusters (faker.rs 96-105)
RECURSIVE traverse_file_clusters(_, _, _, _, _, _)
traverse_file_clusters(mapper_, path, cur_cluster, clusters, needed_subclusters, max_cluster) ==
    IF clusters < needed_subclusters
    THEN LET my_offset == skip_allocated(mapper_, cur_cluster + 12)
         IN  traverse_file_clusters(add_cluster_to_path(mapper_, to_str(path), my_offset), path,
                                    cur_cluster, clusters + 1, needed_subclusters,
                                    Max(max_cluster, my_offset))
    ELSE [mapper |-> mapper_, max_cluster |-> max_cluster]

\* for ent in subfiles (faker.rs 79-106)
RECURSIVE traverse_subfiles(_, _, _, _, _, _, _)
traverse_subfiles(mapper_, cur, subfiles, i, cur_cluster, max_cluster, bpc) ==
    IF i > Len(subfiles) THEN [mapper |-> mapper_, max_cluster |-> max_cluster]
    ELSE LET ent == subfiles[i]
             path == add_file(add_subdir(PathBuff_default, to_str(cur)), ent.name)
             needed_subclusters_raw == CeilDiv(ent.meta.size, bpc)
             needed_subclusters ==
                 Max(0, needed_subclusters_raw - Len(get_chain_for_path(mapper_, to_str(path))))
             r == traverse_file_clusters(mapper_, path, cur_cluster, 0, needed_subclusters,
                                         max_cluster)
         IN  traverse_subfiles(r.mapper, cur, subfiles, i + 1, cur_cluster, r.max_cluster, bpc)

RECURSIVE traverse(_, _, _, _)
RECURSIVE traverse_subdirs(_, _, _, _, _, _, _)

\* for dir in subdirs (faker.rs 108-117)
traverse_subdirs(mapper_, cur, tree, subdirs, i, max_cluster, bpc) ==
    IF i > Len(subdirs) THEN [mapper |-> mapper_, max_cluster |-> max_cluster]
    ELSE LET path == add_subdir(add_subdir(PathBuff_default, to_str(cur)), subdirs[i].name)
             r == traverse(mapper_, path, tree, bpc)
         IN  traverse_subdirs(r.mapper, cur, tree, subdirs, i + 1,
                              Max(max_cluster, r.max_cluster), bpc)

traverse(mapper_, cur, tree, bpc) ==
    LET ents == entries(tree, Unwrap(get_dir(tree, to_str(cur))))
        entry_count == entry_count_sum(ents, 1)
        needed_bytes == Max(entry_count, 1) * ENTRY_SIZE
        needed_clusters_raw == CeilDiv(needed_bytes, bpc)
        needed_clusters ==
            Max(0, needed_clusters_raw - Len(get_chain_for_path(mapper_, to_str(cur))))
        d == traverse_dir_clusters(mapper_, cur, 0, 0, needed_clusters)
        subdirs == SelectSeq(ents, LAMBDA ent : ent.meta.is_directory)
        subfiles == SelectSeq(ents, LAMBDA ent : ~ent.meta.is_directory)
        f == traverse_subfiles(d.mapper, cur, subfiles, 1, d.cur_cluster, d.cur_cluster, bpc)
    IN  traverse_subdirs(f.mapper, cur, tree, subdirs, 1, f.max_cluster, bpc)

\* the least total cluster count of a device
MIN_TOTAL_CLUSTERS == 11259375

\* FakeFat::new
FakeFat_new(tree, path_prefix_str) ==
    LET path_prefix == add_subdir(PathBuff_default, path_prefix_str)
        bpb0 == [BiosParameterBlock_default EXCEPT
                    !.bytes_per_sector = 512, !.sectors_per_cluster = 8]
        t == traverse(ClusterMapper_new, path_prefix, tree, bytes_per_cluster(bpb0))
        total_clusters == Max(bpb0.root_dir_first_cluster + t.max_cluster + 1, MIN_TOTAL_CLUSTERS)
        total_sectors == bpb0.sectors_per_cluster * total_clusters
        bpb1 == [bpb0 EXCEPT !.total_sectors_32 = total_sectors]
        bpb2 == [bpb1 EXCEPT !.sectors_per_fat_32 = default_sectors_per_fat(bpb1)]
    IN  [bpb |-> bpb2, fsinfo |-> FsInfoSector_default, fs |-> tree, mapper |-> t.mapper,
         changes |-> ChangeSet_new(bytes_per_cluster(bpb2)), prefix |-> path_prefix]

(***************************************************************************)
(* faker.rs: the directory projector                                       *)
(***************************************************************************)
\* the Wrapping<u8> hash of the name in file_to_direntries: the loop over
\* bytes lo..hi of name (1-based) started with idx.  The range is cut in
\* halves; the second half starts from the value that the first half ends
\* with.
RECURSIVE name_hash(_, _, _, _)
name_hash(name, lo, hi, idx) ==
    IF lo > hi THEN idx
    ELSE IF lo = hi
    THEN LET offset == (name[lo] - 65) % 256
             bottom_bits == BitAnd(offset, 15)
         IN  BitXor((idx * 2) % 256, bottom_bits)
    ELSE CHOOSE h \in {name_hash(name, ((lo + hi) \div 2) + 1, hi, first) :
                          first \in {name_hash(name, lo, (lo + hi) \div 2, idx)}} : TRUE

\* LfnChain is [len, allocation]; allocation holds the entries written by
\* construct_name_entries
file_to_direntries(name, meta) ==
    LET fileent == [to_dirent(meta) EXCEPT !.name = convert_str(name, name_hash(name, 1, Len(name), 0))]
        lfn_length == lfn_count_for_name(name)
    IN  [fileent |-> fileent,
         chain |-> [len |-> lfn_length, allocation |-> construct_name_entries(name, fileent)]]

\* LfnChain::iter walking the allocation upwards, in order of creation
LfnChain_iter_forward(self) == [i \in 1..self.len |-> self.allocation[i]]

\* LfnChain::iter: from allocation[len - 1] down to allocation[0]
LfnChain_iter(self) == [i \in 1..self.len |-> self.allocation[self.len - i + 1]]

\* the entries of one child: its name entries, then its File entry
child_entries(ent) ==
    LET dirents == file_to_direntries(ent.name, ent.meta)
        name_ents == LfnChain_iter(dirents.chain)
    IN  [i \in 1..Len(name_ents) |->
            [entry |-> [kind |-> "LongFileName", ent |-> name_ents[i]], backing |-> None]]
        \o <<[entry |-> [kind |-> "File", ent |-> dirents.fileent], backing |-> Some(ent)]>>

RECURSIVE flatten_entries(_, _)
flatten_entries(sys_entries, i) ==
    IF i > Len(sys_entries) THEN <<>>
    ELSE child_entries(sys_entries[i]) \o flatten_entries(sys_entries, i + 1)

\* DirectoryNewtype::fat_entries
fat_entries(tree, directory) == flatten_entries(entries(tree, directory), 1)

\* fix_first_entry storing the head of the chain as it is, without the two
\* reserved clusters
fix_first_entry_unshifted(mapper_, base_path, pair) ==
    IF pair.entry.kind = "File" /\ IsSome(pair.backing)
    THEN LET base_pathbuff == add_subdir(PathBuff_default, base_path)
             full_name == Unwrap(pair.backing).name
             full_path == IF is_directory(pair.entry.ent.attrs)
                          THEN add_subdir(base_pathbuff, full_name)
                          ELSE add_file(base_pathbuff, full_name)
             head == get_chain_head_for_path(mapper_, to_str(full_path))
             first_cluster == IF IsSome(head) THEN Unwrap(head) ELSE BAD_ENTRY
         IN  [pair EXCEPT !.entry.ent.first_cluster = first_cluster]
    ELSE pair

fix_first_entry(mapper_, base_path, pair) ==
    IF pair.entry.kind = "File" /\ IsSome(pair.backing)
    THEN LET base_pathbuff == add_subdir(PathBuff_default, base_path)
             full_name == Unwrap(pair.backing).name
             full_path == IF is_directory(pair.entry.ent.attrs)
                          THEN add_subdir(base_pathbuff, full_name)
                          ELSE add_file(base_pathbuff, full_name)
             head == get_chain_head_for_path(mapper_, to_str(full_path))
             first_cluster == IF IsSome(head) THEN Unwrap(head) + 2 ELSE BAD_ENTRY
         IN  [pair EXCEPT !.entry.ent.first_cluster = first_cluster]
    ELSE pair

(***************************************************************************)
(* faker.rs: the address translator                                        *)
(***************************************************************************)
\* idx - data_begin_offset is negative for an idx below the FATs that is not
\* in the first 1024 bytes: the usize subtraction aborts in a "debug" build
\* and wraps in a "release" build.  The wrapped difference is
\* 2^64 - (data_begin_offset - idx); with a cluster size that divides 2^32
\* its quotient truncated to u32 is 2^32 - ceil((data_begin_offset - idx) /
\* cluster_size), held here as the negative number it is congruent to, and
\* its remainder is (idx - data_begin_offset) mod cluster_size.
from_raw_idx(idx, self, build_) ==
    IF idx < BiosParameterBlock_SIZE
    THEN [kind |-> "Bpb", idx |-> idx, wrapped |-> FALSE]
    ELSE IF idx < BiosParameterBlock_SIZE + FsInfoSector_SIZE
    THEN [kind |-> "FsInfo", idx |-> idx - BiosParameterBlock_SIZE, wrapped |-> FALSE]
    ELSE IF idx >= fat_start(self) /\ idx < fat_end(self)
    THEN [kind |-> "Fat", cluster |-> idx_to_cluster(self, idx), byte |-> idx % 4,
          wrapped |-> FALSE]
    ELSE LET cluster_size == bytes_per_cluster(self)
             data_begin_offset == fat_end(self)
         IN  IF idx < data_begin_offset /\ build_ = "debug"
             THEN [kind |-> "Abort", wrapped |-> TRUE]
             ELSE [kind |-> "RawData",
                   cluster |-> (idx - data_begin_offset) \div cluster_size,
                   offset |-> (idx - data_begin_offset) % cluster_size,
                   wrapped |-> idx < data_begin_offset]

\* the number of clusters of the chain before cluster
RECURSIVE take_while_count(_, _, _)
take_while_count(chain, cluster, i) ==
    IF i > Len(chain) \/ chain[i] = cluster THEN 0
    ELSE 1 + take_while_count(chain, cluster, i + 1)

\* skip_while(|c| *c != cluster).next(): the first link that is not skipped
RECURSIVE skip_while_next(_, _, _)
skip_while_next(chain, cluster, i) ==
    IF i > Len(chain) THEN None
    ELSE IF chain[i] # cluster THEN skip_while_next(chain, cluster, i + 1)
    ELSE Some(chain[i])

\* resolve_raw_data taking offset as the offset in the chain, whatever the
\* place of the cluster in it
resolve_raw_data_unplaced(cluster, offset, self, mapper_, tree) ==
    LET byte_offset == offset
        path == get_path_for_cluster(mapper_, cluster)
    IN  IF ~IsSome(path) THEN None
        ELSE IF ~IsSome(get_metadata(tree, Unwrap(path))) THEN None
        ELSE IF Unwrap(get_metadata(tree, Unwrap(path))).is_directory
        THEN (IF ~IsSome(get_dir(tree, Unwrap(path))) THEN None
              ELSE Some([kind |-> "Directory",
                         directory |-> Unwrap(get_dir(tree, Unwrap(path))),
                         entry |-> byte_offset \div ENTRY_SIZE,
                         offset |-> byte_offset % ENTRY_SIZE]))
        ELSE (IF ~IsSome(get_file(tree, Unwrap(path))) THEN None
              ELSE Some([kind |-> "File",
                         file |-> Unwrap(get_file(tree, Unwrap(path))),
                         offset |-> byte_offset]))

resolve_raw_data(cluster, offset, self, mapper_, tree) ==
    LET chain_opt == get_chain_with_cluster(mapper_, cluster)
        cluster_chain == IF IsSome(chain_opt) THEN Unwrap(chain_opt) ELSE <<>>
        clusters_previous == take_while_count(cluster_chain, cluster, 1)
        byte_offset == clusters_previous * bytes_per_cluster(self) + offset
        path == get_path_for_cluster(mapper_, cluster)
    IN  IF ~IsSome(path) THEN None
        ELSE IF ~IsSome(get_metadata(tree, Unwrap(path))) THEN None
        ELSE IF Unwrap(get_metadata(tree, Unwrap(path))).is_directory
        THEN (IF ~IsSome(get_dir(tree, Unwrap(path))) THEN None
              ELSE Some([kind |-> "Directory",
                         directory |-> Unwrap(get_dir(tree, Unwrap(path))),
                         entry |-> byte_offset \div ENTRY_SIZE,
                         offset |-> byte_offset % ENTRY_SIZE]))
        ELSE (IF ~IsSome(get_file(tree, Unwrap(path))) THEN None
              ELSE Some([kind |-> "File",
                         file |-> Unwrap(get_file(tree, Unwrap(path))),
                         offset |-> byte_offset]))

(***************************************************************************)
(* faker.rs: read_byte and write_byte.  self is the record of the fields   *)
(* of FakeFat and the build.                                               *)
(***************************************************************************)
\* the entries of the directory from index entry on, with first_cluster
\* fixed (faker.rs 200-207)
fixed_entries(self, directory, entry, cluster) ==
    LET all == self.streams[directory]
        base_path == Unwrap(get_path_for_cluster(self.mapper, cluster))
    IN  [i \in 1..Max(0, Len(all) - entry) |->
            fix_first_entry(self.mapper, base_path, all[entry + i]).entry]

\* ReadByte::read_at of a directory entry into a buffer of buflen bytes
ReadByte_read_at(ent, idx, buflen) ==
    LET end_idx == Min(idx + buflen, ENTRY_SIZE)
    IN  [k \in 1..Max(0, end_idx - idx) |-> Fat32DirectoryEntry_read_byte(ent, idx + k - 1)]

\* for ent in entries (faker.rs 208-221), over entries lo..hi (1-based):
\* buf is the part of the cluster buffer written so far, read_bytes its
\* length; the loop has ended once read_bytes >= bytes_per_cluster.  The
\* range is cut in halves; the second half starts from the buffer that the
\* first half leaves.
RECURSIVE backfill_directory(_, _, _, _, _, _)
backfill_directory(ents, lo, hi, offset, buf, bpc) ==
    IF lo > hi \/ Len(buf) >= bpc THEN buf
    ELSE IF lo = hi
    THEN buf \o ReadByte_read_at(ents[lo], (Len(buf) + offset) % ENTRY_SIZE,
                                 Min(Len(buf) + ENTRY_SIZE, bpc) - Len(buf))
    ELSE CHOOSE b \in {backfill_directory(ents, ((lo + hi) \div 2) + 1, hi, offset, first, bpc) :
                          first \in {backfill_directory(ents, lo, (lo + hi) \div 2, offset,
                                                        buf, bpc)}} : TRUE

\* the FAT value read_byte computes for a cluster (faker.rs 248-257)
read_fat_value(self, cluster) ==
    IF IsSome(cluster_entry(self.changes, cluster))
    THEN Unwrap(cluster_entry(self.changes, cluster))
    ELSE IF IsSome(get_chain_with_cluster(self.mapper, cluster))
    THEN LET cur_chain == Unwrap(get_chain_with_cluster(self.mapper, cluster))
             next_link == skip_while_next(cur_chain, cluster, 1)
         IN  IF IsSome(next_link) THEN FatEntryValue_from(U32Bytes(Unwrap(next_link)))
             ELSE End
    ELSE Free

\* the byte read_byte projects in the data region (faker.rs 263-295)
read_data_byte(self, cluster, offset) ==
    IF IsSome(cluster_data(self.changes, cluster))
    THEN BufferAt(Unwrap(cluster_data(self.changes, cluster)), offset)
    ELSE Let(resolve_raw_data(cluster, offset, self.bpb, self.mapper, self.fs), LAMBDA r :
         IF ~IsSome(r) THEN 0
         ELSE IF Unwrap(r).kind = "File"
         THEN Let(FileOps_read_byte(Unwrap(r).file, Unwrap(r).offset), LAMBDA b :
                  IF IsSome(b) THEN Unwrap(b) ELSE 0)
         ELSE LET all == self.streams[Unwrap(r).directory]
                  base_path == Unwrap(get_path_for_cluster(self.mapper, cluster))
                  entry == Unwrap(r).entry
                  ent == IF entry < Len(all)
                         THEN fix_first_entry(self.mapper, base_path, all[entry + 1]).entry
                         ELSE Fat32DirectoryEntry_empty
              IN  Fat32DirectoryEntry_read_byte(ent, Unwrap(r).offset))

\* FakeFat::read_byte: [panic, ret, wrapped]; ret is -1 when the call aborts
read_byte(self, idx) ==
    Let(from_raw_idx(idx, self.bpb, self.build), LAMBDA addr :
        CASE addr.kind = "Abort" -> [panic |-> TRUE, ret |-> -1, wrapped |-> TRUE]
          [] addr.kind = "Bpb" ->
                [panic |-> FALSE, ret |-> BiosParameterBlock_read_byte(self.bpb, addr.idx),
                 wrapped |-> FALSE]
          [] addr.kind = "FsInfo" ->
                [panic |-> FALSE, ret |-> FsInfoSector_read_byte(self.fsinfo, addr.idx),
                 wrapped |-> FALSE]
          [] addr.kind = "Fat" ->
                [panic |-> FALSE,
                 ret |-> u32_from(read_fat_value(self, addr.cluster))[addr.byte + 1],
                 wrapped |-> FALSE]
          [] addr.kind = "RawData" ->
                [panic |-> FALSE, ret |-> read_data_byte(self, addr.cluster, addr.offset),
                 wrapped |-> addr.wrapped])

\* the record write_byte inserts for a cluster that has none (faker.rs 169-225)
write_insert(self, cluster) ==
    LET chain_opt == get_chain_with_cluster(self.mapper, cluster)
        old_entry ==
            IF ~IsSome(chain_opt) THEN Free
            ELSE Let(skip_while_next(Unwrap(chain_opt), cluster, 1), LAMBDA entry_raw :
                     IF IsSome(entry_raw) THEN FatEntryValue_Next(U32Bytes(Unwrap(entry_raw)))
                     ELSE End)
        bpc == bytes_per_cluster(self.bpb)
        cluster_data_buff ==
            Let(resolve_raw_data(cluster, 0, self.bpb, self.mapper, self.fs), LAMBDA r :
                IF ~IsSome(r) THEN <<>>
                ELSE IF Unwrap(r).kind = "File"
                THEN FileOps_read_at(Unwrap(r).file, Unwrap(r).offset, bpc)
                ELSE Let(fixed_entries(self, Unwrap(r).directory, Unwrap(r).entry, cluster),
                         LAMBDA ents :
                             backfill_directory(ents, 1, Len(ents), Unwrap(r).offset, <<>>, bpc)))
    IN  insert_cluster(self.changes, cluster, old_entry, cluster_data_buff)

\* write_byte dropping a write outside the FATs instead of panicking
write_byte_dropping(self, idx, new_byte) ==
    Let(from_raw_idx(idx, self.bpb, self.build), LAMBDA addr :
        IF addr.kind = "Fat"
        THEN Let(IF ~IsSome(cluster_entry(self.changes, addr.cluster))
                 THEN write_insert(self, addr.cluster)
                 ELSE self.changes,
                 LAMBDA inserted :
                     LET existing == u32_from(Unwrap(cluster_entry(inserted, addr.cluster)))
                         newval == [existing EXCEPT ![addr.byte + 1] = new_byte]
                     IN  [panic |-> FALSE,
                          changes |-> set_cluster_entry(inserted, addr.cluster,
                                                        FatEntryValue_from(newval))])
        ELSE [panic |-> FALSE, changes |-> self.changes])

\* FakeFat::write_byte: [panic, changes]
write_byte(self, idx, new_byte) ==
    Let(from_raw_idx(idx, self.bpb, self.build), LAMBDA addr :
        IF addr.kind = "Fat"
        THEN Let(IF ~IsSome(cluster_entry(self.changes, addr.cluster))
                 THEN write_insert(self, addr.cluster)
                 ELSE self.changes,
                 LAMBDA inserted :
                     LET existing == u32_from(Unwrap(cluster_entry(inserted, addr.cluster)))
                         newval == [existing EXCEPT ![addr.byte + 1] = new_byte]
                     IN  [panic |-> FALSE,
                          changes |-> set_cluster_entry(inserted, addr.cluster,
                                                        FatEntryValue_from(newval))])
        ELSE [panic |-> TRUE, changes |-> self.changes])

(***************************************************************************)
(* The device in use: a caller makes read_byte and write_byte calls, one   *)
(* at a time, and takes the outcome of each before the next.  A call that  *)
(* panics ends the run.                                                    *)
(***************************************************************************)
Self == [fs |-> fs, bpb |-> bpb, fsinfo |-> fsinfo, mapper |-> mapper, changes |-> changes,
         streams |-> streams, build |-> build]

NoCall == [op |-> "none", idx |-> 0, byte |-> 0, panic |-> FALSE, ret |-> 0, wrapped |-> FALSE]

\* the device index of byte b of the FAT entry of cluster c, in the first FAT
FatIdx(c, b) == fat_start(bpb) + 4 * c + b
\* the same byte in the second FAT
FatMirrorIdx(c, b) == FatIdx(c, b) + bpb.sectors_per_fat_32 * bpb.bytes_per_sector
\* the device index of offset o of cluster c of the data region
DataIdx(c, o) == fat_end(bpb) + c * bytes_per_cluster(bpb) + o

MappedClusters == DOMAIN mapper.cluster_mapping

IsDirectoryCluster(c) ==
    /\ c \in MappedClusters
    /\ IsSome(get_metadata(fs, mapper.cluster_mapping[c]))
    /\ Unwrap(get_metadata(fs, mapper.cluster_mapping[c])).is_directory

\* indices the caller reads
PreambleProbes == {0, 11, 13, 510, 511, 512, 1000, 1023}
FillerProbes == {1024, 3072, 4095}
FatProbeClusters == MappedClusters \cup {c + 2 : c \in MappedClusters} \cup {2, 3, 5}
FatProbes ==
    {FatIdx(c, b) : c \in FatProbeClusters, b \in 0..3}
    \cup {FatMirrorIdx(c, 0) : c \in {0, 12}}
    \cup {FatIdx(bpb.sectors_per_fat_32 \div 4, 0)}
DirectoryOffsets ==
    {ENTRY_SIZE * s + o : s \in 0..3, o \in 0..(ENTRY_SIZE - 1)}
    \cup {ENTRY_SIZE * s + o : s \in {4, 127}, o \in {0, 11, 20, 21, 26, 27, 31}}
FileOffsets == {0, 1, 3, 4, 5, 6, 100, 4095}
DataProbes ==
    {DataIdx(c, o) : c \in {d \in MappedClusters : IsDirectoryCluster(d)}, o \in DirectoryOffsets}
    \cup {DataIdx(c, o) : c \in {d \in MappedClusters : ~IsDirectoryCluster(d)} \cup {5},
                          o \in FileOffsets}
ReadIdx == PreambleProbes \cup FillerProbes \cup FatProbes \cup DataProbes

\* indices and bytes the caller writes
WriteClusters == {0, 1, 12}
WriteVals == {0, 85}
WriteIdx == {FatIdx(c, 0) : c \in WriteClusters} \cup {0, 512, 1024, DataIdx(0, 0)}

\* the FAT-entry specification writes every byte of one entry
FatWriteCluster == 5
FatWriteVals == {15, 248, 255}
FatWriteIdx == {FatIdx(FatWriteCluster, b) : b \in 0..3}
FatReadIdx == FatWriteIdx \cup {FatMirrorIdx(FatWriteCluster, 0), DataIdx(FatWriteCluster, 0)}

\* the FAT-copies specification reads and writes FAT entries through both
\* copies of the FAT: the entries of clusters 0, 1, 5 and 12 and of the
\* clusters one FAT's sector count of bytes further on; it writes to some of
\* them
MirrorClusters == {0, 1, 5, 12}
MirrorFarClusters == {bpb.sectors_per_fat_32 \div 4 + c : c \in {1, 12}}
MirrorReadIdx ==
    {FatIdx(c, b) : c \in MirrorClusters \cup MirrorFarClusters, b \in 0..3}
    \cup {FatMirrorIdx(c, b) : c \in MirrorClusters \cup MirrorFarClusters, b \in 0..3}
MirrorWriteIdx ==
    {FatIdx(5, 0), FatMirrorIdx(5, 0), FatIdx(12, 0), FatMirrorIdx(12, 1),
     FatIdx(bpb.sectors_per_fat_32 \div 4 + 12, 0)}
MirrorWriteVals == {7, 255}

\* the boot-sector specification reads every byte of the boot sector, and
\* writes a FAT byte or, in vain, a byte of the boot sector
BootReadIdx == 0..(BiosParameterBlock_SIZE - 1)
BootWriteIdx == {0, FatIdx(0, 0)}
BootWriteVals == {85}

Init ==
    /\ \E id \in TreeIds :
          \E f \in {FakeFat_new(TreeOf(id), <<47>>)} :
             /\ fs = f.fs
             /\ bpb = f.bpb
             /\ fsinfo = f.fsinfo
             /\ mapper = f.mapper
             /\ nop_mapper = NopClusterMapper_new
             /\ changes = f.changes
             /\ streams = [directory \in DOMAIN f.fs |-> fat_entries(f.fs, directory)]
    /\ build \in {"debug", "release"}
    /\ writes = 0
    /\ pc = "idle"
    /\ last = NoCall

\* a read_byte call that leaves a record for cluster 0 in the overlay
ReadByteCall_recording(indices) ==
    /\ pc = "idle"
    /\ \E idx \in indices :
          \E r \in {read_byte(Self, idx)} :
              /\ last' = [op |-> "read_byte", idx |-> idx, byte |-> 0, panic |-> r.panic,
                          ret |-> r.ret, wrapped |-> r.wrapped]
              /\ pc' = IF r.panic THEN "aborted" ELSE "returned"
    /\ changes' = insert_cluster(changes, 0, Free, <<>>)
    /\ UNCHANGED <<fs, bpb, fsinfo, mapper, nop_mapper, streams, build, writes>>

\* a read_byte call at one of the indices
ReadByteCall(indices) ==
    /\ pc = "idle"
    /\ \E idx \in indices :
          \E r \in {read_byte(Self, idx)} :
              /\ last' = [op |-> "read_byte", idx |-> idx, byte |-> 0, panic |-> r.panic,
                          ret |-> r.ret, wrapped |-> r.wrapped]
              /\ pc' = IF r.panic THEN "aborted" ELSE "returned"
    /\ UNCHANGED <<fs, bpb, fsinfo, mapper, nop_mapper, changes, streams, build, writes>>


\* a write_byte call that also appends the index written to the chain of "/"
WriteByteCall_mapping(indices, bytes, max) ==
    /\ pc = "idle"
    /\ writes < max
    /\ \E idx \in indices, new_byte \in bytes :
          \E r \in {write_byte(Self, idx, new_byte)} :
              /\ changes' = r.changes
              /\ mapper' = add_cluster_to_path(mapper, <<47>>, idx)
              /\ last' = [op |-> "write_byte", idx |-> idx, byte |-> new_byte,
                          panic |-> r.panic, ret |-> 0, wrapped |-> FALSE]
              /\ pc' = IF r.panic THEN "aborted" ELSE "returned"
    /\ writes' = writes + 1
    /\ UNCHANGED <<fs, bpb, fsinfo, nop_mapper, streams, build>>

\* a write_byte call of one of the bytes at one of the indices, while fewer
\* than max calls have been made
WriteByteCall(indices, bytes, max) ==
    /\ pc = "idle"
    /\ writes < max
    /\ \E idx \in indices, new_byte \in bytes :
          \E r \in {write_byte(Self, idx, new_byte)} :
              /\ changes' = r.changes
              /\ last' = [op |-> "write_byte", idx |-> idx, byte |-> new_byte,
                          panic |-> r.panic, ret |-> 0, wrapped |-> FALSE]
              /\ pc' = IF r.panic THEN "aborted" ELSE "returned"
    /\ writes' = writes + 1
    /\ UNCHANGED <<fs, bpb, fsinfo, mapper, nop_mapper, streams, build>>

\* the caller takes the outcome of the call that returned
TakeResult ==
    /\ pc = "returned"
    /\ pc' = "idle"
    /\ last' = NoCall
    /\ UNCHANGED <<fs, bpb, fsinfo, mapper, nop_mapper, changes, streams, build, writes>>

Next ==
    \/ ReadByteCall(ReadIdx)
    \/ WriteByteCall(WriteIdx, WriteVals, MaxWrites)
    \/ TakeResult

Spec == Init /\ [][Next]_vars

NextFat ==
    \/ ReadByteCall(FatReadIdx)
    \/ WriteByteCall(FatWriteIdx, FatWriteVals, MaxFatWrites)
    \/ TakeResult

SpecFat == Init /\ [][NextFat]_vars

NextMirror ==
    \/ ReadByteCall(MirrorReadIdx)
    \/ WriteByteCall(MirrorWriteIdx, MirrorWriteVals, MaxMirrorWrites)
    \/ TakeResult

SpecMirror == Init /\ [][NextMirror]_vars

NextBoot ==
    \/ ReadByteCall(BootReadIdx)
    \/ WriteByteCall(BootWriteIdx, BootWriteVals, MaxBootWrites)
    \/ TakeResult

SpecBoot == Init /\ [][NextBoot]_vars

(***************************************************************************)
(* The library in use: a caller converts values with the public functions *)
(* of the crate, one call at a time; the device, built over the empty      *)
(* tree, is left alone.                                                    *)
(***************************************************************************)
InitLibrary == Init /\ fs[<<>>] = <<>>

\* the raw FAT values converted: every low byte under each of these upper
\* bytes
RawUpperBytes == {<<0, 0, 0>>, <<255, 255, 15>>, <<254, 255, 15>>, <<255, 255, 31>>,
                  <<255, 255, 255>>}
RawValues == {<<b>> \o upper : b \in 0..255, upper \in RawUpperBytes}

\* u32::from(FatEntryValue::from(inner)) for one of the raw values
FatCodecCall ==
    /\ pc = "idle"
    /\ \E inner \in RawValues :
          last' = [op |-> "FatEntryValue::from", arg |-> inner, panic |-> FALSE,
                   ret |-> u32_from(FatEntryValue_from(inner))]
    /\ pc' = "returned"
    /\ UNCHANGED <<fs, bpb, fsinfo, mapper, nop_mapper, changes, streams, build, writes>>

NextCodec ==
    \/ FatCodecCall
    \/ TakeResult

SpecCodec == InitLibrary /\ [][NextCodec]_vars

(***************************************************************************)
(* ShortName::from_str over a bounded set of names, and over the 11 bytes  *)
(* a parsed name projects.                                                 *)
(***************************************************************************)
NameAlphabet == {65, 98, 49, 46}

\* every name of up to MaxNameLen characters over NameAlphabet
RECURSIVE NamesOfLen(_)
NamesOfLen(n) ==
    IF n = 0 THEN {<<>>}
    ELSE {<<c>> \o rest : c \in NameAlphabet, rest \in NamesOfLen(n - 1)}

ShortNames == UNION {NamesOfLen(n) : n \in 0..MaxNameLen}

\* "ABCDEFGH", "ABCDEFGHI", "ABCDEFGH.T", "ABCDEFG.TXT", "ABCDEFGH.TXT",
\* "README.TXT", "readme.txt", "README.txt", "A.TXTX", "A*B", "a b", "A{1}.#$%",
\* U+00E9 as UTF-8
LongNames ==
    { <<65, 66, 67, 68, 69, 70, 71, 72>>,
      <<65, 66, 67, 68, 69, 70, 71, 72, 73>>,
      <<65, 66, 67, 68, 69, 70, 71, 72, 46, 84>>,
      <<65, 66, 67, 68, 69, 70, 71, 46, 84, 88, 84>>,
      <<65, 66, 67, 68, 69, 70, 71, 72, 46, 84, 88, 84>>,
      <<82, 69, 65, 68, 77, 69, 46, 84, 88, 84>>,
      <<114, 101, 97, 100, 109, 101, 46, 116, 120, 116>>,
      <<82, 69, 65, 68, 77, 69, 46, 116, 120, 116>>,
      <<65, 46, 84, 88, 84, 88>>,
      <<65, 42, 66>>,
      <<97, 32, 98>>,
      <<65, 123, 49, 125, 46, 35, 36, 37>>,
      <<195, 169>> }

Names == ShortNames \cup LongNames

\* bytes 0..=10 of the directory entry of a ShortName
project_bytes(self) == [i \in 1..11 |-> ShortName_read_byte(self, i - 1)]

FromStrCall ==
    /\ pc = "idle"
    /\ \E name \in Names :
          last' = [op |-> "ShortName::from_str", arg |-> name, panic |-> FALSE,
                   ret |-> from_str(name)]
    /\ pc' = "returned"
    /\ UNCHANGED <<fs, bpb, fsinfo, mapper, nop_mapper, changes, streams, build, writes>>

\* from_str of the bytes projected by the ShortName that from_str(name) made
ReparseCall ==
    /\ pc = "idle"
    /\ \E name \in Names :
          /\ IsSome(from_str(name))
          /\ last' = [op |-> "ShortName::read_byte", arg |-> name, panic |-> FALSE,
                      ret |-> from_str(project_bytes(Unwrap(from_str(name))))]
    /\ pc' = "returned"
    /\ UNCHANGED <<fs, bpb, fsinfo, mapper, nop_mapper, changes, streams, build, writes>>

NextNames == \/ FromStrCall \/ ReparseCall \/ TakeResult

SpecNames == InitLibrary /\ [][NextNames]_vars

(***************************************************************************)
(* Time::fat_encode_simple, fat_encode_hi_res, decode and with_hi_res      *)
(***************************************************************************)
TimeHours == {0, 1, 12, 23}
TimeMinutes == {0, 31, 59}
TimeSeconds == {0, 1, 30, 31, 58, 59}
TimeTenths == 0..9

Times ==
    {[hour |-> h, minute |-> m, second |-> s, tenths |-> t] :
        h \in TimeHours, m \in TimeMinutes, s \in TimeSeconds, t \in TimeTenths}

TimeCodecCall ==
    /\ pc = "idle"
    /\ \E t \in Times :
          \E encoded \in {fat_encode_simple(t)}, hi_res_info \in {fat_encode_hi_res(t)} :
             \E panic \in {build = "debug" /\ ~(/\ Time_decode_asserts(encoded)
                                                /\ with_hi_res_asserts(hi_res_info))} :
                /\ last' = [op |-> "Time::decode", arg |-> t, panic |-> panic,
                            ret |-> with_hi_res(Time_decode(encoded), hi_res_info)]
                /\ pc' = IF panic THEN "aborted" ELSE "returned"
    /\ UNCHANGED <<fs, bpb, fsinfo, mapper, nop_mapper, changes, streams, build, writes>>

NextTime == \/ TimeCodecCall \/ TakeResult

SpecTime == InitLibrary /\ [][NextTime]_vars

(***************************************************************************)
(* Date::from_epoch_millis over days of 1970..2099                         *)
(***************************************************************************)
\* days since the epoch: the first MaxEpochDay days, and days around the end
\* of February, the turn of the year and 1980-01-01 in later years, up to
\* 2099-12-31
EpochDays ==
    (0..MaxEpochDay)
        \cup {364, 365, 366, 423, 424, 425, 729, 730, 788, 789, 790, 1095, 1096, 1460, 1461,
              3651, 3652, 3653, 3711, 3712, 10956, 10957, 11016, 11017, 20819, 20820,
              47422, 47423, 47481}

\* the first and the last millisecond of a day
DayMillis == {0, 86399999}

DateCall ==
    /\ pc = "idle"
    /\ \E day \in EpochDays, ms \in DayMillis :
          \E millis \in {[days |-> day, rest |-> ms]} :
             \E panic \in {build = "debug" /\ ~from_epoch_millis_asserts(millis)} :
                /\ last' = [op |-> "Date::from_epoch_millis", arg |-> millis, panic |-> panic,
                            ret |-> Date_from_epoch_millis(millis)]
                /\ pc' = IF panic THEN "aborted" ELSE "returned"
    /\ UNCHANGED <<fs, bpb, fsinfo, mapper, nop_mapper, changes, streams, build, writes>>

NextDate == \/ DateCall \/ TakeResult

SpecDate == InitLibrary /\ [][NextDate]_vars

(***************************************************************************)
(* The cluster mappers on their own, from ClusterMapperOps::new() on       *)
(***************************************************************************)
InitMappers ==
    /\ \E f \in {FakeFat_new(TreeOf("empty"), <<47>>)} :
          /\ fs = f.fs
          /\ bpb = f.bpb
          /\ fsinfo = f.fsinfo
          /\ changes = f.changes
          /\ streams = [directory \in DOMAIN f.fs |-> fat_entries(f.fs, directory)]
    /\ mapper = ClusterMapper_new
    /\ nop_mapper = NopClusterMapper_new
    /\ build \in {"debug", "release"}
    /\ writes = 0
    /\ pc = "idle"
    /\ last = NoCall

\* "/", "/A", "/A/", "/A/B", "/C"
MapperPaths == {<<47>>, <<47, 65>>, <<47, 65, 47>>, <<47, 65, 47, 66>>, <<47, 67>>}
MapperClusters == 0..MaxMapperCluster
AllocClusters == {0, 1, 5}

\* AllocClusterMapper::add_cluster_to_path, with any cluster, while fewer
\* than MaxAppends calls have been made
AllocAppendCall ==
    /\ pc = "idle"
    /\ writes < MaxAppends
    /\ \E path \in MapperPaths, cluster \in AllocClusters :
          /\ mapper' = add_cluster_to_path(mapper, path, cluster)
          /\ last' = [op |-> "add_cluster_to_path", arg |-> [path |-> path, cluster |-> cluster],
                      prior |-> get_path_for_cluster(mapper, cluster), panic |-> FALSE, ret |-> 0]
    /\ writes' = writes + 1
    /\ pc' = "returned"
    /\ UNCHANGED <<fs, bpb, fsinfo, nop_mapper, changes, streams, build>>

NextAlloc == \/ AllocAppendCall \/ TakeResult

SpecAlloc == InitMappers /\ [][NextAlloc]_vars

\* the same add_cluster_to_path call made on both mappers, with a cluster
\* that is in no chain yet
MapperAppendCall ==
    /\ pc = "idle"
    /\ writes < MaxAppends
    /\ \E path \in MapperPaths, cluster \in MapperClusters :
          /\ ~is_allocated(mapper, cluster)
          /\ \E r \in {Nop_add_cluster_to_path(nop_mapper, path, U32Bytes(cluster))} :
                /\ mapper' = add_cluster_to_path(mapper, path, cluster)
                /\ nop_mapper' = r.mapper
                /\ last' = [op |-> "add_cluster_to_path",
                            arg |-> [path |-> path, cluster |-> cluster],
                            prior |-> None, panic |-> r.panic, ret |-> 0]
                /\ pc' = IF r.panic THEN "aborted" ELSE "returned"
    /\ writes' = writes + 1
    /\ UNCHANGED <<fs, bpb, fsinfo, changes, streams, build>>

NextMappers == MapperAppendCall

SpecMappers == InitMappers /\ [][NextMappers]_vars

(***************************************************************************)
(* What the claims speak of                                                *)
(***************************************************************************)
HasOverlay(c) == c \in DOMAIN changes.entries

\* a read_byte call has returned
ReadReturned == pc = "returned" /\ last.op = "read_byte"

\* the chain that holds a mapped cluster, and the cluster's 0-based place in it
ChainOf(c) == mapper.path_mapping[mapper.cluster_mapping[c]]
PlaceInChain(c) == (CHOOSE k \in 1..Len(ChainOf(c)) : ChainOf(c)[k] = c) - 1

\* the FAT entry a chain prescribes for its cluster c
ChainEntry(c) ==
    IF PlaceInChain(c) + 1 < Len(ChainOf(c))
    THEN FatEntryValue_Next(U32Bytes(ChainOf(c)[PlaceInChain(c) + 2]))
    ELSE End

\* C1: every cluster c of a chain that has no overlay record has a FAT entry
\* that reads, byte by byte, as Next(successor of c in the chain), or as End
\* when c is the last cluster of the chain.
C1_ChainEntriesReadAsSuccessor ==
    ReadReturned =>
        \A c \in MappedClusters, b \in 0..3 :
            (~HasOverlay(c) /\ last.idx = FatIdx(c, b))
                => last.ret = u32_from(ChainEntry(c))[b + 1]

\* the paths that have a chain, and the cluster number the volume publishes
\* for each: the head of the chain + 2
ChainedPaths == {p \in DOMAIN mapper.path_mapping : mapper.path_mapping[p] # <<>>}
PublishedCluster(p) == Head(mapper.path_mapping[p]) + 2

\* C2: the FAT entry indexed by the cluster number published for a path is
\* the entry of the first cluster of the path's chain; with an empty root the
\* entry of cluster 2 reads End and the entry of cluster 3 reads Free.
C2_PublishedClusterIndexesChainHead ==
    (ReadReturned /\ DOMAIN changes.entries = {}) =>
        /\ \A p \in ChainedPaths, b \in 0..3 :
              last.idx = FatIdx(PublishedCluster(p), b)
                  => last.ret = u32_from(ChainEntry(Head(mapper.path_mapping[p])))[b + 1]
        /\ \A b \in 0..3 :
              (fs[<<>>] = <<>> /\ last.idx = FatIdx(3, b)) => last.ret = u32_from(Free)[b + 1]

\* the cluster whose FAT entry holds a FAT-region index (of the first FAT)
FatClusterOf(idx) == (idx - fat_start(bpb)) \div 4
InFirstFat(idx) ==
    idx >= fat_start(bpb) /\ idx < fat_start(bpb) + bpb.sectors_per_fat_32 * bpb.bytes_per_sector

\* C3: the first write_byte to a FAT byte of a cluster without an overlay
\* record leaves every byte of the cluster's data region reading as it read
\* right before the write.
C3_FirstWriteKeepsClusterData ==
    [][(/\ pc = "idle"
        /\ pc' = "returned"
        /\ last'.op = "write_byte"
        /\ InFirstFat(last'.idx)
        /\ ~HasOverlay(FatClusterOf(last'.idx)))
       => \A o \in 0..(bytes_per_cluster(bpb) - 1) :
              read_byte(Self', DataIdx(FatClusterOf(last'.idx), o)).ret
                  = read_byte(Self, DataIdx(FatClusterOf(last'.idx), o)).ret]_vars

\* C4: after write_byte(i, b) at a FAT-region index i, read_byte(i) returns b.
C4_LastWriteWins ==
    (/\ pc = "returned"
     /\ last.op = "write_byte"
     /\ last.idx >= fat_start(bpb)
     /\ last.idx < fat_end(bpb))
        => read_byte(Self, last.idx).ret = last.byte

\* C5: read_byte returns a byte at every index of the device, the reserved
\* filler included, with no arithmetic underflow and no abort.
C5_ReadDefinedEverywhere ==
    (pc \in {"returned", "aborted"} /\ last.op = "read_byte")
        => /\ ~last.panic
           /\ ~last.wrapped
           /\ last.ret \in 0..255

\* the cluster and the offset in it of a data-region index
InData(idx) == idx >= fat_end(bpb)
DataClusterOf(idx) == (idx - fat_end(bpb)) \div bytes_per_cluster(bpb)
DataOffsetOf(idx) == (idx - fat_end(bpb)) % bytes_per_cluster(bpb)

\* a read_byte call in a directory cluster without an overlay record has
\* returned
ReadInDirectory ==
    /\ ReadReturned
    /\ InData(last.idx)
    /\ IsDirectoryCluster(DataClusterOf(last.idx))
    /\ ~HasOverlay(DataClusterOf(last.idx))

\* of that read: the components of the directory's path, its children, the
\* index in its entry stream of the slot read, and the byte of the slot
ReadDirectory == Components(mapper.cluster_mapping[DataClusterOf(last.idx)], 1, <<>>)
ReadChildren == fs[ReadDirectory]
ReadStreamIndex ==
    PlaceInChain(DataClusterOf(last.idx)) * (bytes_per_cluster(bpb) \div ENTRY_SIZE)
        + (DataOffsetOf(last.idx) \div ENTRY_SIZE)
ReadEntryByte == DataOffsetOf(last.idx) % ENTRY_SIZE

\* the number of LFN entries of a name: none for a name that parses as a
\* short name, else ceil(len / 13)
NameEntryCount(name) == IF IsSome(from_str(name)) THEN 0 ELSE CeilDiv(Len(name), 13)

\* the stream index of the first entry of the i-th child, and of its File entry
RECURSIVE StreamStart(_, _)
StreamStart(ents, i) ==
    IF i <= 1 THEN 0
    ELSE StreamStart(ents, i - 1) + NameEntryCount(ents[i - 1].name) + 1
FilePosition(ents, i) == StreamStart(ents, i) + NameEntryCount(ents[i].name)
StreamLength(ents) == StreamStart(ents, Len(ents) + 1)

\* the paths with a chain that name a child of the directory read
ChildChainedPaths(name) ==
    {p \in ChainedPaths : Components(p, 1, <<>>) = Append(ReadDirectory, name)}

\* head_for(q) + 2, or the Bad sentinel for a child without a chain
ExpectedFirstCluster(name) ==
    IF ChildChainedPaths(name) = {} THEN BAD_ENTRY
    ELSE PublishedCluster(CHOOSE p \in ChildChainedPaths(name) : TRUE)

\* C6: a projected File entry holds first_cluster = head_for(q) + 2 of its
\* child q, high word in bytes 20 and 21, low word in bytes 26 and 27, little
\* endian; for a child without a chain it holds the Bad sentinel 0x0FFFFFF7.
C6_FileEntryFirstCluster ==
    ReadInDirectory =>
        \A i \in 1..Len(ReadChildren) :
            ReadStreamIndex = FilePosition(ReadChildren, i) =>
                LET fc == ExpectedFirstCluster(ReadChildren[i].name)
                IN  /\ ReadEntryByte = 26 => last.ret = fc % 256
                    /\ ReadEntryByte = 27 => last.ret = (fc \div 256) % 256
                    /\ ReadEntryByte = 20 => last.ret = (fc \div 65536) % 256
                    /\ ReadEntryByte = 21 => last.ret = (fc \div 16777216) % 256

\* the low byte of first_cluster of the File entry of a child that has a
\* chain is read, as is the top byte of a child that has none
C6_Witness ==
    /\ ReadInDirectory
    /\ \E i \in 1..Len(ReadChildren) :
          /\ ReadStreamIndex = FilePosition(ReadChildren, i)
          /\ ReadEntryByte = 26
          /\ ChildChainedPaths(ReadChildren[i].name) # {}
          /\ last.ret = PublishedCluster(CHOOSE p \in ChildChainedPaths(ReadChildren[i].name) : TRUE)
          /\ last.ret > 2

\* the bytes of an LFN entry that hold its 13 name bytes
NamePartBytes == <<1, 3, 5, 7, 9, 14, 16, 18, 20, 22, 24, 28, 30>>

\* C7: a child whose name is no short name has its n = ceil(len / 13) LFN
\* entries right before its File entry, with sequence bytes 0x40 | n, n - 1,
\* ..., 1, the entry of sequence number k holding name bytes 13(k-1)..13k-1;
\* a child whose name is a short name has its File entry alone.
C7_LfnEntriesInWireOrder ==
    ReadInDirectory =>
        \A i \in 1..Len(ReadChildren) :
            LET name == ReadChildren[i].name
                n == NameEntryCount(name)
            IN  /\ \A w \in 0..(n - 1) :
                      ReadStreamIndex = StreamStart(ReadChildren, i) + w =>
                          LET k == n - w
                          IN  /\ ReadEntryByte = 0
                                    => last.ret = IF w = 0 THEN BitOr(64, n) ELSE k
                              /\ ReadEntryByte = 11 => last.ret = 15
                              /\ \A j \in 0..12 :
                                    (/\ ReadEntryByte = NamePartBytes[j + 1]
                                     /\ 13 * (k - 1) + j < Len(name))
                                        => last.ret = name[13 * (k - 1) + j + 1]
                /\ (ReadStreamIndex = FilePosition(ReadChildren, i) /\ ReadEntryByte = 11)
                      => last.ret # 15

\* the sequence byte of the first LFN entry on the wire of a name that takes
\* two or more entries is read
C7_Witness ==
    /\ ReadInDirectory
    /\ \E i \in 1..Len(ReadChildren) :
          /\ NameEntryCount(ReadChildren[i].name) >= 2
          /\ ReadStreamIndex = StreamStart(ReadChildren, i)
          /\ ReadEntryByte = 0
          /\ last.ret = BitOr(64, NameEntryCount(ReadChildren[i].name))

\* a read_byte call in a cluster of a file without an overlay record has
\* returned
ReadInFile ==
    /\ ReadReturned
    /\ InData(last.idx)
    /\ DataClusterOf(last.idx) \in MappedClusters
    /\ ~IsDirectoryCluster(DataClusterOf(last.idx))
    /\ ~HasOverlay(DataClusterOf(last.idx))

\* of that read: the file, and the number of the byte of the file
ReadFile == Unwrap(Lookup(fs, mapper.cluster_mapping[DataClusterOf(last.idx)]))
ReadFileByte ==
    PlaceInChain(DataClusterOf(last.idx)) * bytes_per_cluster(bpb) + DataOffsetOf(last.idx)

\* C8: offset o of the k-th cluster of a file's chain reads as byte
\* k * bytes_per_cluster + o of the file when that is below the file's size,
\* and as 0 otherwise.
C8_FileClusterReadsContent ==
    ReadInFile =>
        last.ret = IF ReadFileByte < ReadFile.meta.size
                   THEN FileContent(ReadFile, ReadFileByte)
                   ELSE 0

\* a content byte of the second cluster of a file is read
C8_Witness ==
    /\ ReadInFile
    /\ PlaceInChain(DataClusterOf(last.idx)) = 1
    /\ ReadFileByte < ReadFile.meta.size
    /\ last.ret = FileContent(ReadFile, ReadFileByte)
    /\ last.ret # 0

InReadOnlyRegion(idx) ==
    \/ idx >= 0 /\ idx < BiosParameterBlock_SIZE
    \/ idx >= BiosParameterBlock_SIZE /\ idx < BiosParameterBlock_SIZE + FsInfoSector_SIZE
    \/ InData(idx)

\* C10: write_byte at an index of the boot sector, the FS Info sector or the
\* data region ends in a fatal error and changes nothing of the overlay, the
\* cluster mapper or the volume parameters.
C10_RejectedWriteChangesNothing ==
    [][(pc = "idle" /\ last'.op = "write_byte" /\ InReadOnlyRegion(last'.idx))
       => /\ last'.panic
          /\ pc' = "aborted"
          /\ changes' = changes
          /\ mapper' = mapper
          /\ bpb' = bpb
          /\ fsinfo' = fsinfo]_vars

\* a write_byte call in the data region has been rejected
C10_Witness ==
    /\ pc = "aborted"
    /\ last.op = "write_byte"
    /\ InData(last.idx)
    /\ last.panic

FatBytes == bpb.sectors_per_fat_32 * bpb.bytes_per_sector

\* offsets in a copy of the FAT at which the copies are compared
MirrorOffsets == {4 * c + b : c \in MirrorClusters \cup MirrorFarClusters, b \in 0..3}

\* C12: in every reachable state, whatever copy of the FAT the write_byte
\* calls went through, read_byte returns the same byte at the same offset of
\* every copy of the FAT.
C12_FatCopiesReadAlike ==
    \A k \in MirrorOffsets : \A m, n \in 0..(bpb.fats - 1) :
        read_byte(Self, fat_start(bpb) + m * FatBytes + k).ret
            = read_byte(Self, fat_start(bpb) + n * FatBytes + k).ret

\* a write_byte call through the second copy of the FAT has returned
C12_Witness ==
    /\ pc = "returned"
    /\ last.op = "write_byte"
    /\ last.idx >= fat_start(bpb) + FatBytes
    /\ last.idx < fat_end(bpb)
    /\ ~last.panic

(***************************************************************************)
(* C15                                                                     *)
(***************************************************************************)
\* a FAT-region index, of any copy, and the cluster whose entry holds it
InFat(idx) == idx >= fat_start(bpb) /\ idx < fat_end(bpb)
FatEntryOf(idx) == ((idx - fat_start(bpb)) % FatBytes) \div 4

\* C15: every byte of the FAT entry of a cluster that is in no chain of the
\* mapper and has no overlay record reads as 0.
C15_UnchainedEntryReadsFree ==
    (ReadReturned /\ InFat(last.idx))
        => ((FatEntryOf(last.idx) \notin MappedClusters /\ ~HasOverlay(FatEntryOf(last.idx)))
                => last.ret = 0)

(***************************************************************************)
(* C13                                                                     *)
(***************************************************************************)
\* byte i (0 for the lowest) of a little-endian field
LittleEndian(value, i) == (value \div (256 ^ i)) % 256

\* the published layout of the boot sector
BootSectorLayout(i) ==
    CASE i \in 0..10 -> 97
      [] i \in 11..12 -> LittleEndian(bpb.bytes_per_sector, i - 11)
      [] i = 13 -> bpb.sectors_per_cluster
      [] i \in 14..15 -> LittleEndian(bpb.reserved_sectors, i - 14)
      [] i = 16 -> bpb.fats
      [] i \in 17..20 -> 0
      [] i = 21 -> bpb.media
      [] i \in 22..23 -> 0
      [] i \in 24..25 -> LittleEndian(bpb.sectors_per_track, i - 24)
      [] i \in 26..27 -> LittleEndian(bpb.heads, i - 26)
      [] i \in 28..31 -> LittleEndian(bpb.hidden_sectors, i - 28)
      [] i \in 32..35 -> LittleEndian(bpb.total_sectors_32, i - 32)
      [] i \in 36..39 -> LittleEndian(bpb.sectors_per_fat_32, i - 36)
      [] i \in 40..41 -> LittleEndian(bpb.extended_flags, i - 40)
      [] i \in 42..43 -> 0
      [] i \in 44..47 -> LittleEndian(bpb.root_dir_first_cluster, i - 44)
      [] i \in 48..49 -> LittleEndian(bpb.fs_info_sector, i - 48)
      [] i \in 50..51 -> LittleEndian(bpb.backup_boot_sector, i - 50)
      [] i \in 52..63 -> 0
      [] i = 64 -> bpb.drive_num
      [] i = 65 -> 0
      [] i = 66 -> 41
      [] i \in 67..70 -> LittleEndian(bpb.volume_id, i - 67)
      [] i \in 71..81 -> bpb.volume_label[i - 70]
      [] i \in 82..89 -> <<70, 65, 84, 51, 50, 32, 32, 32>>[i - 81]
      [] i = 510 -> 85
      [] i = 511 -> 170
      [] OTHER -> 0

\* C13: read_byte at an index below 512 returns the byte of the published
\* boot-sector layout at that index.
C13_BootSectorLayout ==
    (ReadReturned /\ last.idx < 512) => last.ret = BootSectorLayout(last.idx)

\* the second signature byte has been read
C13_Witness ==
    /\ ReadReturned
    /\ last.idx = 511
    /\ last.ret = 170

(***************************************************************************)
(* C14                                                                     *)
(***************************************************************************)
\* the device as FakeFat::new leaves it
Constructed == pc = "idle" /\ writes = 0

\* the largest cluster the planner reports for the backing tree
PlannerMaxCluster ==
    traverse(ClusterMapper_new, add_subdir(PathBuff_default, <<47>>), fs,
             bpb.bytes_per_sector * bpb.sectors_per_cluster).max_cluster

RECURSIVE RotatedSum(_, _, _)
RotatedSum(bytes, i, sum) ==
    IF i > Len(bytes) THEN sum
    ELSE RotatedSum(bytes, i + 1, ((sum % 2) * 128 + (sum \div 2) + bytes[i]) % 256)

\* the device index of byte o of the slot at index p of the entry stream of
\* the directory read
StreamSlotIdx(p, o) ==
    DataIdx(ChainOf(DataClusterOf(last.idx))[(p \div (bytes_per_cluster(bpb) \div ENTRY_SIZE)) + 1],
            ENTRY_SIZE * (p % (bytes_per_cluster(bpb) \div ENTRY_SIZE)) + o)

\* bytes 0..=10 of the slot at index p, as read_byte returns them
StreamSlotName(p) == [j \in 1..11 |-> read_byte(Self, StreamSlotIdx(p, j - 1)).ret]

\* C16: every LFN entry of a directory stream reads 0x0F at byte 11 and, at
\* byte 13, the checksum of the short name in bytes 0..=10 of the File entry
\* that follows its run of LFN entries.
C16_LfnEntriesCarryChecksum ==
    ReadInDirectory =>
        \A i \in 1..Len(ReadChildren) :
            \A w \in 0..(NameEntryCount(ReadChildren[i].name) - 1) :
                ReadStreamIndex = StreamStart(ReadChildren, i) + w =>
                    /\ ReadEntryByte = 11 => last.ret = 15
                    /\ (/\ ReadEntryByte = 13
                        /\ ~HasOverlay(DataClusterOf(StreamSlotIdx(FilePosition(ReadChildren, i), 0))))
                          => last.ret
                               = RotatedSum(StreamSlotName(FilePosition(ReadChildren, i)), 1, 0)

\* the checksum byte of an LFN entry in the second cluster of a directory is
\* read, and is not 0
C16_Witness ==
    /\ ReadInDirectory
    /\ ReadEntryByte = 13
    /\ PlaceInChain(DataClusterOf(last.idx)) = 1
    /\ last.ret # 0
    /\ \E i \in 1..Len(ReadChildren) :
          /\ ReadStreamIndex >= StreamStart(ReadChildren, i)
          /\ ReadStreamIndex < FilePosition(ReadChildren, i)

(***************************************************************************)
(* C17                                                                     *)
(***************************************************************************)
\* C17: encoding the FatEntryValue decoded from a 32-bit value yields the
\* value again.
C17_FatCodecRoundTrips ==
    (pc = "returned" /\ last.op = "FatEntryValue::from") => last.ret = last.arg

(***************************************************************************)
(* C18                                                                     *)
(***************************************************************************)
NameDots(name) == {i \in 1..Len(name) : name[i] = 46}

FirstDot(name) == CHOOSE i \in NameDots(name) : \A j \in NameDots(name) : i <= j

NamePart(name) ==
    IF NameDots(name) = {} THEN name ELSE SubSeq(name, 1, FirstDot(name) - 1)

ExtensionPart(name) ==
    IF NameDots(name) = {} THEN <<>> ELSE SubSeq(name, FirstDot(name) + 1, Len(name))

IsDigit(c) == c >= 48 /\ c <= 57
IsUpper(c) == c >= 65 /\ c <= 90
IsLower(c) == c >= 97 /\ c <= 122
\* ! @ # $ % ^ & ( ) { }
IsListedSymbol(c) == c \in {33, 64, 35, 36, 37, 94, 38, 40, 41, 123, 125}
\* space . NUL
IsEndMarker(c) == c \in {32, 46, 0}

UniformCase(part) ==
    ~(/\ \E i \in 1..Len(part) : IsUpper(part[i])
      /\ \E i \in 1..Len(part) : IsLower(part[i]))

\* "non-empty" is read in the way most favourable to the code: a name whose
\* name part is empty (such as "." or ".A") is not representable.
Representable(name) ==
    /\ Len(name) <= 11
    /\ Len(NamePart(name)) > 0
    /\ Cardinality(NameDots(name)) <= 1
    /\ Len(NamePart(name)) <= 8
    /\ Len(ExtensionPart(name)) <= 3
    /\ \A i \in 1..Len(name) :
          \/ IsDigit(name[i]) \/ IsUpper(name[i]) \/ IsLower(name[i])
          \/ IsListedSymbol(name[i]) \/ IsEndMarker(name[i])
    /\ UniformCase(NamePart(name))
    /\ UniformCase(ExtensionPart(name))

\* C18: from_str accepts a name exactly when it is non-empty, at most 11
\* characters long, has at most one '.', at most 8 characters before it and
\* at most 3 after it, only allowed characters, and a uniform letter case in
\* the name part and, independently, in the extension part.
C18_FromStrAcceptsRepresentable ==
    (pc = "returned" /\ last.op = "ShortName::from_str")
        => (IsSome(last.ret) <=> Representable(last.arg))

(***************************************************************************)
(* C19                                                                     *)
(***************************************************************************)
\* C19: parsing the 11 bytes projected by the ShortName of an accepted name
\* yields a ShortName with the same name part, extension part and
\* lower-case flags.
C19_ProjectedBytesParseBack ==
    (pc = "returned" /\ last.op = "ShortName::read_byte")
        => /\ IsSome(last.ret)
           /\ ShortName_name(Unwrap(last.ret)) = ShortName_name(Unwrap(from_str(last.arg)))
           /\ ShortName_ext(Unwrap(last.ret)) = ShortName_ext(Unwrap(from_str(last.arg)))
           /\ Unwrap(last.ret).lower_name = Unwrap(from_str(last.arg)).lower_name
           /\ Unwrap(last.ret).lower_ext = Unwrap(from_str(last.arg)).lower_ext

(***************************************************************************)
(* C20                                                                     *)
(***************************************************************************)
\* C20: decoding the two encodings of a Time with hour <= 23, minute <= 59,
\* second <= 59 and tenths <= 9 yields that Time again.
C20_TimeCodecRoundTrips ==
    (pc = "returned" /\ last.op = "Time::decode") => last.ret = last.arg

(***************************************************************************)
(* C21                                                                     *)
(***************************************************************************)
\* for 1970..2099 a calendar year is a leap year exactly when year % 4 = 0
YearLength(year) == IF year % 4 = 0 THEN 366 ELSE 365

MonthLengths(year) ==
    <<31, IF year % 4 = 0 THEN 29 ELSE 28, 31, 30, 31, 30, 31, 31, 30, 31, 30, 31>>

RECURSIVE CalendarMonth(_, _, _)
CalendarMonth(year, month, day_of_year) ==
    IF day_of_year < MonthLengths(year)[month]
    THEN [year |-> year, month |-> month, day |-> day_of_year + 1]
    ELSE CalendarMonth(year, month + 1, day_of_year - MonthLengths(year)[month])

\* the calendar date `days` days after 1970-01-01, counted from `year`
RECURSIVE CalendarDate(_, _)
CalendarDate(year, days) ==
    IF days < YearLength(year) THEN CalendarMonth(year, 1, days)
    ELSE CalendarDate(year + 1, days - YearLength(year))

\* C21: from_epoch_millis returns the calendar year, month and day of the
\* instant, for every instant from 1970-01-01 through 2099-12-31.
C21_DateOfInstant ==
    (pc = "returned" /\ last.op = "Date::from_epoch_millis")
        => last.ret = CalendarDate(1970, last.arg.days)

(***************************************************************************)
(* C22                                                                     *)
(***************************************************************************)
\* C22: an index inside the FAT region translates to the FAT address of
\* cluster ((idx - reserved_bytes) mod bytes per FAT) / 4, byte idx mod 4.
C22_FatAddress ==
    (pc = "returned" /\ InFat(last.idx))
        => from_raw_idx(last.idx, bpb, build)
             = [kind |-> "Fat",
                cluster |-> ((last.idx - bpb.reserved_sectors * bpb.bytes_per_sector)
                                % (bpb.sectors_per_fat_32 * bpb.bytes_per_sector)) \div 4,
                byte |-> last.idx % 4,
                wrapped |-> FALSE]

(***************************************************************************)
(* C23                                                                     *)
(***************************************************************************)
\* the paths of the mapper that name the directory with these components,
\* and those that name the file `name` in it
DirectoryPaths(directory) ==
    {p \in DOMAIN mapper.path_mapping :
        p[Len(p)] = 47 /\ Components(p, 1, <<>>) = directory}

FilePaths(directory, name) ==
    {p \in DOMAIN mapper.path_mapping :
        p[Len(p)] # 47 /\ Components(p, 1, <<>>) = Append(directory, name)}

\* ceil(a / b)
Ceiling(a, b) == (a + b - 1) \div b

DirectorySlots(directory) ==
    IF StreamLength(fs[directory]) >= 1 THEN StreamLength(fs[directory]) ELSE 1

\* C23: every directory's chain has ceil(max(1, entries) * 32 /
\* bytes_per_cluster) clusters, every file's chain ceil(size /
\* bytes_per_cluster) clusters, an empty file has none, and the entry stream
\* of a directory fits in its chain.
C23_ChainLengths ==
    \A directory \in DOMAIN fs :
        /\ \E p \in DirectoryPaths(directory) :
              /\ DirectoryPaths(directory) = {p}
              /\ Len(mapper.path_mapping[p])
                    = Ceiling(DirectorySlots(directory) * 32, bytes_per_cluster(bpb))
              /\ Len(streams[directory]) * 32
                    <= Len(mapper.path_mapping[p]) * bytes_per_cluster(bpb)
        /\ \A i \in 1..Len(fs[directory]) :
              ~fs[directory][i].meta.is_directory =>
                 IF fs[directory][i].meta.size = 0
                 THEN FilePaths(directory, fs[directory][i].name) = {}
                 ELSE \E p \in FilePaths(directory, fs[directory][i].name) :
                         /\ FilePaths(directory, fs[directory][i].name) = {p}
                         /\ Len(mapper.path_mapping[p])
                               = Ceiling(fs[directory][i].meta.size, bytes_per_cluster(bpb))

\* a device over a tree with a directory of two clusters, a file with a
\* chain and an empty file
C23_Witness ==
    /\ Constructed
    /\ \E directory \in DOMAIN fs :
          /\ \E p \in DirectoryPaths(directory) : Len(mapper.path_mapping[p]) = 2
          /\ \E i \in 1..Len(fs[directory]) :
                /\ fs[directory][i].meta.size > 0
                /\ FilePaths(directory, fs[directory][i].name) # {}
          /\ \E i \in 1..Len(fs[directory]) : fs[directory][i].meta.size = 0

(***************************************************************************)
(* C24                                                                     *)
(***************************************************************************)
\* the places <<path, position>> of the chains where cluster c stands
ChainPlaces(c) ==
    {<<p, i>> \in UNION {{p} \X (1..Len(mapper.path_mapping[p])) :
                            p \in DOMAIN mapper.path_mapping} :
        mapper.path_mapping[p][i] = c}

ChainClusters ==
    UNION {{mapper.path_mapping[p][i] : i \in 1..Len(mapper.path_mapping[p])} :
              p \in DOMAIN mapper.path_mapping}

\* C24: every cluster stands at one place of one chain at most, and
\* path_for(c) is the path of the chain that holds c.
C24_ChainsAreDisjoint ==
    /\ \A c \in ChainClusters \cup DOMAIN mapper.cluster_mapping :
          /\ Cardinality(ChainPlaces(c)) <= 1
          /\ \A place \in ChainPlaces(c) : get_path_for_cluster(mapper, c) = Some(place[1])
    /\ \A c \in DOMAIN mapper.cluster_mapping : ChainPlaces(c) # {}

\* a device over a tree with at least three chains, one of them of two
\* clusters
C24_Witness ==
    /\ Constructed
    /\ Cardinality(ChainedPaths) >= 3
    /\ \E p \in ChainedPaths : Len(mapper.path_mapping[p]) >= 2

(***************************************************************************)
(* C25                                                                     *)
(***************************************************************************)
\* C25: the planner returns the largest cluster of any chain of the mapper.
C25_PlannerReturnsMaxCluster ==
    Constructed =>
        /\ PlannerMaxCluster \in ChainClusters
        /\ \A c \in ChainClusters : c <= PlannerMaxCluster

\* a device over a tree with a subdirectory, whose largest cluster belongs
\* to a file of the subdirectory
C25_Witness ==
    /\ Constructed
    /\ Cardinality(DOMAIN fs) >= 2
    /\ \E p \in ChainedPaths :
          /\ Len(Components(p, 1, <<>>)) = 2
          /\ p[Len(p)] # 47
          /\ \A c \in ChainClusters : c <= mapper.path_mapping[p][Len(mapper.path_mapping[p])]

(***************************************************************************)
(* C26                                                                     *)
(***************************************************************************)
\* C26: add_cluster_to_path with a cluster that is already in a chain is
\* rejected, and the cluster stays at its one place with its path.
C26_AssignedClusterRejected ==
    (last.op = "add_cluster_to_path" /\ IsSome(last.prior))
        => /\ last.panic
           /\ Cardinality(ChainPlaces(last.arg.cluster)) = 1
           /\ get_path_for_cluster(mapper, last.arg.cluster) = last.prior

(***************************************************************************)
(* C27                                                                     *)
(***************************************************************************)
U32Chain(chain) == [i \in 1..Len(chain) |-> U32Bytes(chain[i])]

MappersAgree ==
    /\ \A cluster \in MapperClusters :
          /\ Nop_get_path_for_cluster(nop_mapper, U32Bytes(cluster))
                = get_path_for_cluster(mapper, cluster)
          /\ Nop_is_allocated(nop_mapper, U32Bytes(cluster)) = is_allocated(mapper, cluster)
          /\ Nop_get_chain_with_cluster(nop_mapper, U32Bytes(cluster))
                = IF IsSome(get_chain_with_cluster(mapper, cluster))
                  THEN Some(U32Chain(Unwrap(get_chain_with_cluster(mapper, cluster))))
                  ELSE None
    /\ \A path \in MapperPaths :
          /\ Nop_get_chain_for_path(nop_mapper, path)
                = U32Chain(get_chain_for_path(mapper, path))
          /\ Nop_get_chain_head_for_path(nop_mapper, path)
                = IF IsSome(get_chain_head_for_path(mapper, path))
                  THEN Some(U32Bytes(Unwrap(get_chain_head_for_path(mapper, path))))
                  ELSE None

\* C27: after any sequence of add_cluster_to_path calls with distinct
\* clusters, made on both mappers, every query answers alike on both.
C27_MappersAgree == ~last.panic /\ MappersAgree

(***************************************************************************)
(* C28                                                                     *)
(***************************************************************************)
\* C28: no read_byte or write_byte call changes the cluster mapper, the
\* volume parameters or the backing tree; a write changes the overlay only.
C28_CallsLeaveMapperAndParameters ==
    [][/\ mapper' = mapper
       /\ bpb' = bpb
       /\ fsinfo' = fsinfo
       /\ fs' = fs]_vars

\* a write_byte call to the FAT was accepted and left an overlay record
C28_Witness ==
    /\ pc = "returned"
    /\ last.op = "write_byte"
    /\ ~last.panic
    /\ InFat(last.idx)
    /\ DOMAIN changes.entries # {}

(***************************************************************************)
(* C29                                                                     *)
(***************************************************************************)
\* C29: a write_byte to a FAT byte of cluster c adds the overlay record of c
\* when there is none and no other record; it leaves the data buffer of an
\* existing record of c, and every record of another cluster, as they were.
C29_OverlayRecordsAreLazy ==
    [][(pc = "idle" /\ last'.op = "write_byte" /\ ~last'.panic /\ InFat(last'.idx))
          => /\ DOMAIN changes'.entries = DOMAIN changes.entries \cup {FatEntryOf(last'.idx)}
             /\ \A d \in DOMAIN changes.entries :
                   /\ d # FatEntryOf(last'.idx) => changes'.entries[d] = changes.entries[d]
                   /\ d = FatEntryOf(last'.idx)
                         => changes'.entries[d].data = changes.entries[d].data]_vars

(***************************************************************************)
(* C30                                                                     *)
(***************************************************************************)
\* C30: each FAT has an entry for every cluster of the data section and for
\* the two reserved entries.
C30_FatHoldsEveryCluster ==
    (bpb.sectors_per_fat_32 * bpb.bytes_per_sector) \div 4
        >= (bpb.total_sectors_32 - bpb.reserved_sectors - bpb.fats * bpb.sectors_per_fat_32)
               \div bpb.sectors_per_cluster + 2

====
